---- MODULE Spec2Model ----
(***************************************************************************)
(* Model of src/worker.js: the edge gateway (handleRequest), its rate      *)
(* limiter, health checker, smart router, request optimizer, cache         *)
(* manager, WebSocket sessions (handleWebSocket and the callbacks it       *)
(* registers) and the scheduled maintenance handler.  A request task runs  *)
(* atomically between real suspension points (cache.match, fetch,          *)
(* cache.put); other tasks and callbacks interleave at those points.       *)
(* HealthChecker.healthStatus, which the worker writes and never reads, is *)
(* left out of the state.                                                  *)
(***************************************************************************)
EXTENDS Integers, Sequences, FiniteSets, TLC

VARIABLES
  config,         \* CONFIG: the settings a deployment may change, read-only
  now,            \* Date.now()
  backends,       \* CONFIG.backends: sequence of [url, priority, region, healthy]
  requests,       \* RateLimiter.requests: clientId -> admitted timestamps in window
  metrics,        \* ConnectionPool.metrics
  cache,          \* caches.default: set of [key, response]
  sessions,       \* accepted WebSocket sessions, in accept order: the
                  \* server socket, its keep-alive interval and its listeners
  task,           \* in-flight handleRequest invocations
  sched,          \* the in-flight handleScheduled invocation
  response,       \* the Response most recently returned by handleRequest
  inbound,        \* history: number of requests the runtime delivered
  decisions,      \* history: clientId -> every checkLimit call, [t, allowed]
  failedSinceProbe,\* history: backends whose flag a failed forward wrote last
  failedInFlight, \* history: backends whose forward failed while the
                  \* refresh's probe of them was in flight
  lastStored      \* history: cache key -> [response, seq] of the last completed
                  \* cache.put and the number of completed puts for the key

vars == <<config, now, backends, requests, metrics, cache, sessions,
          task, sched, response, inbound, decisions,
          failedSinceProbe, failedInFlight,
          lastStored>>

----------------------------------------------------------------------------
(* Bounds of the exploration *)
MaxTime == 4
MaxRequests == 4
MaxInflight == 2
MaxBackends == 2
MaxSessions == 2
MaxMessages == 1
MaxReceived == 2
MaxDelivered == 2
MaxWindow == 3
MaxRouted == 2
MaxUpgrades == 4
MaxCached == 3
MaxAdmissions == 3
MaxProbed == 1
MaxProbeTime == 2

(* CONFIG; the rate limit and its window are scaled down to the clock of   *)
(* the model                                                               *)
requestsPerMinute == 2
windowMs == 2
\* 'retry-after': '60', in seconds, on the clock on which 60000 ms is windowMs
retryAfter == 2
cacheTtl == 300
keepAliveInterval == 2
maxConnections == 1
rateLimitEnabled == TRUE
bypassPaths == { <<"/api", "/realtime">>, <<"/ws">> }
bypassAll == { <<"*">> }
compression == TRUE
http2 == TRUE
keepAlive == TRUE

(* Input alphabets *)
Urls == <<"https://a", "https://b", "https://c", "https://d">>
Priorities == {1, 2}
Regions == {"us-east", "eu-west"}
Ips == {"", "10.0.0.1"}
ClientIds == {"unknown"} \cup (Ips \ {""})
ProbeOutcomes == {"ok", "status", "network", "timeout"}
CacheOutcomes == {"ok", "error"}
Reply(status, body) == [status |-> status, headers |-> {}, body |-> body]

----------------------------------------------------------------------------
(* Headers: a set of <<name, value>> pairs, at most one pair per name *)
HSet(h, n, v) == {p \in h : p[1] # n} \cup {<<n, v>>}
HDelete(h, n) == {p \in h : p[1] # n}
StartsWith(s, p) == Len(p) <= Len(s) /\ SubSeq(s, 1, Len(p)) = p

----------------------------------------------------------------------------
(* RateLimiter *)
History(table, clientId) ==
  IF clientId \in DOMAIN table THEN table[clientId] ELSE <<>>

InWindow_inclusive(ts, t) ==
  SelectSeq(ts, LAMBDA x : x >= t - config.windowMs)

InWindow(ts, t) == SelectSeq(ts, LAMBDA x : x > t - config.windowMs)

MapSet(table, k, v) ==
  [x \in DOMAIN table \cup {k} |-> IF x = k THEN v ELSE table[x]]

MapDelete(table, k) == [x \in DOMAIN table \ {k} |-> table[x]]

checkLimit_recordsDenied(table, clientId, t) ==
  IF ~rateLimitEnabled THEN <<TRUE, table>>
  ELSE LET reqs == InWindow(History(table, clientId), t)
       IN <<Len(reqs) < requestsPerMinute,
            MapSet(table, clientId, Append(reqs, t))>>

checkLimit_admitsAtLimit(table, clientId, t) ==
  IF ~rateLimitEnabled THEN <<TRUE, table>>
  ELSE LET reqs == InWindow(History(table, clientId), t)
       IN IF Len(reqs) > requestsPerMinute
          THEN <<FALSE, table>>
          ELSE <<TRUE, MapSet(table, clientId, Append(reqs, t))>>

\* checkLimit: <<allowed, requests'>>
checkLimit(table, clientId, t) ==
  IF ~rateLimitEnabled THEN <<TRUE, table>>
  ELSE LET reqs == InWindow(History(table, clientId), t)
       IN IF Len(reqs) >= requestsPerMinute
          THEN <<FALSE, table>>
          ELSE <<TRUE, MapSet(table, clientId, Append(reqs, t))>>

RECURSIVE cleanupFrom(_, _, _)
cleanupFrom(table, ids, t) ==
  IF ids = {} THEN table
  ELSE LET c == CHOOSE x \in ids : TRUE
           valid == InWindow(table[c], t)
           next == IF Len(valid) = 0 THEN MapDelete(table, c)
                   ELSE MapSet(table, c, valid)
       IN cleanupFrom(next, ids \ {c}, t)

cleanup_keepsExpired(table, t) ==
  [c \in DOMAIN table |-> InWindow(table[c], t)]

cleanup_clearsTable(table, t) == [c \in {} |-> <<>>]

cleanup_inclusive(table, t) ==
  [c \in {x \in DOMAIN table : InWindow_inclusive(table[x], t) # <<>>} |->
     InWindow_inclusive(table[c], t)]

cleanup(table, t) == cleanupFrom(table, DOMAIN table, t)

----------------------------------------------------------------------------
(* HealthChecker.getHealthyBackends: indices into CONFIG.backends of the   *)
(* healthy backends, stably sorted by ascending priority                   *)
RECURSIVE InsertByPriority_unstable(_, _, _)
InsertByPriority_unstable(bs, sorted, i) ==
  IF sorted = <<>> THEN <<i>>
  ELSE IF bs[Head(sorted)].priority - bs[i].priority >= 0
       THEN <<i>> \o sorted
       ELSE <<Head(sorted)>> \o InsertByPriority_unstable(bs, Tail(sorted), i)

RECURSIVE InsertByPriority(_, _, _)
InsertByPriority(bs, sorted, i) ==
  IF sorted = <<>> THEN <<i>>
  ELSE IF bs[Head(sorted)].priority - bs[i].priority > 0
       THEN <<i>> \o sorted
       ELSE <<Head(sorted)>> \o InsertByPriority(bs, Tail(sorted), i)

RECURSIVE SortByPriority(_, _)
SortByPriority(bs, idx) ==
  IF idx = <<>> THEN <<>>
  ELSE InsertByPriority(bs, SortByPriority(bs, SubSeq(idx, 1, Len(idx) - 1)),
                        idx[Len(idx)])

Indices(bs) == [i \in 1..Len(bs) |-> i]

getHealthyBackends(bs) ==
  SortByPriority(bs, SelectSeq(Indices(bs), LAMBDA i : bs[i].healthy))

(* SmartRouter *)
getRegionFromCountry(country) ==
  CASE country = "US" -> "us-east"
    [] country = "CA" -> "us-east"
    [] country = "GB" -> "eu-west"
    [] country = "DE" -> "eu-west"
    [] country = "FR" -> "eu-west"
    [] country = "JP" -> "ap-east"
    [] country = "CN" -> "ap-east"
    [] country = "AU" -> "ap-south"
    [] OTHER -> "us-east"

selectBackend_priorityOnly(bs, countryHeader) ==
  LET healthyBackends == getHealthyBackends(bs)
  IN IF Len(healthyBackends) = 0
     THEN (IF Len(bs) = 0 THEN 0 ELSE 1)
     ELSE Head(healthyBackends)

selectBackend_sortedFallback(bs, countryHeader) ==
  LET healthyBackends == getHealthyBackends(bs)
      clientCountry == IF countryHeader = "" THEN "US" ELSE countryHeader
      clientRegion == getRegionFromCountry(clientCountry)
      regional == SelectSeq(healthyBackends,
                            LAMBDA i : bs[i].region = clientRegion)
  IN IF Len(healthyBackends) = 0
     THEN (IF Len(bs) = 0 THEN 0 ELSE Head(SortByPriority(bs, Indices(bs))))
     ELSE IF regional # <<>> THEN Head(regional)
     ELSE Head(healthyBackends)

selectBackend_noFallback(bs, countryHeader) ==
  LET healthyBackends == getHealthyBackends(bs)
      clientCountry == IF countryHeader = "" THEN "US" ELSE countryHeader
      clientRegion == getRegionFromCountry(clientCountry)
      regional == SelectSeq(healthyBackends,
                            LAMBDA i : bs[i].region = clientRegion)
  IN IF Len(healthyBackends) = 0 THEN 0
     ELSE IF regional # <<>> THEN Head(regional)
     ELSE Head(healthyBackends)

\* selectBackend: index of the chosen backend, 0 when CONFIG.backends[0]
\* is undefined
selectBackend(bs, countryHeader) ==
  LET healthyBackends == getHealthyBackends(bs)
      clientCountry == IF countryHeader = "" THEN "US" ELSE countryHeader
      clientRegion == getRegionFromCountry(clientCountry)
      regional == SelectSeq(healthyBackends,
                            LAMBDA i : bs[i].region = clientRegion)
  IN IF Len(healthyBackends) = 0
     THEN (IF Len(bs) = 0 THEN 0 ELSE 1)
     ELSE IF regional # <<>> THEN Head(regional)
     ELSE Head(healthyBackends)

----------------------------------------------------------------------------
(* RequestOptimizer *)
\* request.headers: the Headers object of the inbound request (names in
\* lower case), made of the headers the gateway reads and the others
HeaderIfSent(n, v) == IF v = "" THEN {} ELSE {<<n, v>>}

RequestHeaders(req) ==
  HeaderIfSent("cf-connecting-ip", req.ip)
    \cup HeaderIfSent("cf-ipcountry", req.country)
    \cup HeaderIfSent("upgrade", req.upgrade)
    \cup req.headers

optimizeHeaders_keepsAuthorization(headers) ==
  LET stripped == HDelete(headers, "cookie")
      encoded == IF compression
                 THEN HSet(stripped, "accept-encoding", "gzip, deflate, br")
                 ELSE stripped
      upgraded == IF http2 THEN HSet(encoded, "upgrade", "h2") ELSE encoded
  IN IF keepAlive
     THEN HSet(HSet(upgraded, "connection", "keep-alive"),
               "keep-alive", "timeout=60, max=1000")
     ELSE upgraded

\* optimizeHeaders: works on a copy, the argument is left as it was
optimizeHeaders(headers) ==
  LET stripped == HDelete(HDelete(headers, "cookie"), "authorization")
      encoded == IF compression
                 THEN HSet(stripped, "accept-encoding", "gzip, deflate, br")
                 ELSE stripped
      upgraded == IF http2 THEN HSet(encoded, "upgrade", "h2") ELSE encoded
  IN IF keepAlive
     THEN HSet(HSet(upgraded, "connection", "keep-alive"),
               "keep-alive", "timeout=60, max=1000")
     ELSE upgraded

\* what fetch is called with: the backend URL built from the request's path
\* and the backend's url, and method, headers and body of optimizeRequest
ForwardedRequest(backendUrl, method, path, headers, body) ==
  [url |-> <<backendUrl, path>>, method |-> method,
   headers |-> optimizeHeaders(headers), body |-> body]

----------------------------------------------------------------------------
(* CacheManager *)
shouldCache_anyMethod(method, path) ==
  IF \E p \in config.bypassPaths : StartsWith(path, p) THEN FALSE
  ELSE TRUE

shouldCache(method, path) ==
  IF \E p \in config.bypassPaths : StartsWith(path, p) THEN FALSE
  ELSE IF method # "GET" THEN FALSE
  ELSE TRUE

CacheKey(method, path) == [method |-> method, path |-> path]

\* caches.default.match
cacheMatch(store, key) == {e \in store : e.key = key}

\* the Response built by CacheManager.put from the backend's response
cachedResponse(reply) ==
  [status |-> reply.status,
   headers |-> HSet(HSet(reply.headers, "cache-control",
                         "public, max-age=" \o ToString(cacheTtl)),
                    "x-cache-status", "HIT"),
   body |-> reply.body]

cachePut_append(store, key, resp) ==
  store \cup {[key |-> key, response |-> resp]}

\* caches.default.put: replaces the entry stored under the same key
cachePut(store, key, resp) ==
  {e \in store : e.key # key} \cup {[key |-> key, response |-> resp]}

----------------------------------------------------------------------------
(* State after module evaluation *)
Registries ==
  UNION {[1..n -> [priority : Priorities, region : Regions]] : n \in 0..MaxBackends}

Registry(f) ==
  [i \in 1..Len(f) |-> [url |-> Urls[i], priority |-> f[i].priority,
                        region |-> f[i].region, healthy |-> TRUE]]

NoReply == [status |-> 0, headers |-> {}, body |-> ""]

NoForward == [url |-> <<>>, method |-> "", headers |-> {}, body |-> ""]

\* headers, body: the inbound request's; forwarded: what fetch was called with
IdleTask == [pc |-> "idle", method |-> "", path |-> <<>>, country |-> "",
             headers |-> {}, body |-> "", forwarded |-> NoForward,
             backend |-> 0, startTime |-> 0, latency |-> 0, reply |-> NoReply]

NoResponse == [status |-> 0, headers |-> {}, body |-> ""]

\* CONFIG as shipped
DefaultConfig == [healthCheckEnabled |-> TRUE, bypassPaths |-> bypassPaths,
                  windowMs |-> windowMs]

InitWithConfig(registries, configs) ==
  /\ config \in configs
  /\ now = 0
  /\ backends \in registries
  /\ requests = [c \in {} |-> <<>>]
  /\ metrics = [activeConnections |-> 0, totalRequests |-> 0,
                cacheHits |-> 0, cacheMisses |-> 0]
  /\ cache = {}
  /\ sessions = <<>>
  /\ task = [t \in 1..MaxInflight |-> IdleTask]
  /\ sched = [pc |-> "idle", i |-> 0]
  /\ response = NoResponse
  /\ inbound = 0
  /\ decisions = [c \in ClientIds |-> <<>>]
  /\ failedSinceProbe = {}
  /\ failedInFlight = {}
  /\ lastStored = [k \in {} |-> [response |-> NoReply, seq |-> 0]]

InitWith(registries) == InitWithConfig(registries, {DefaultConfig})

----------------------------------------------------------------------------
(* Responses built by handleRequest *)
HealthResponse(m) ==
  [status |-> 200,
   headers |-> {<<"content-type", "application/json">>},
   body |-> [status |-> "healthy", metrics |-> m,
             backends |-> [i \in 1..Len(backends) |->
                             [url |-> backends[i].url,
                              healthy |-> backends[i].healthy,
                              priority |-> backends[i].priority]],
             timestamp |-> now]]

MetricsResponse(m) ==
  [status |-> 200,
   headers |-> {<<"content-type", "application/json">>},
   body |-> [metrics |-> m, rateLimits |-> Cardinality(DOMAIN requests),
             timestamp |-> now]]

RateLimitResponse_noRetryHint ==
  [status |-> 429,
   headers |-> {<<"x-rate-limit", ToString(requestsPerMinute)>>},
   body |-> "Rate limit exceeded"]

RateLimitResponse ==
  [status |-> 429,
   headers |-> {<<"retry-after", "60">>,
                <<"x-rate-limit", ToString(requestsPerMinute)>>},
   body |-> "Rate limit exceeded"]

HitResponse(cached, m) ==
  [status |-> cached.status,
   headers |-> HSet(HSet(cached.headers, "x-cache", "HIT"),
                    "x-cache-hits", ToString(m.cacheHits)),
   body |-> cached.body]

NoBackendResponse ==
  [status |-> 503, headers |-> {}, body |-> "No healthy backends available"]

MissResponse(reply, b, latency) ==
  [status |-> reply.status,
   headers |-> HSet(HSet(HSet(HSet(HSet(reply.headers,
                 "x-cache", "MISS"),
                 "x-backend", backends[b].url),
                 "x-latency", ToString(latency)),
                 "x-region", backends[b].region),
                 "x-powered-by", "Advanced-Ping-Booster"),
   body |-> reply.body]

BadGatewayResponse(b, message) ==
  [status |-> 502,
   headers |-> {<<"content-type", "application/json">>},
   body |-> [error |-> "Backend error", message |-> message,
             backend |-> backends[b].url]]

----------------------------------------------------------------------------
(* handleRequest *)
HasFreeSlot == \E t \in 1..MaxInflight : task[t].pc = "idle"

FreeSlot ==
  CHOOSE t \in 1..MaxInflight :
    task[t].pc = "idle" /\ \A u \in 1..(t - 1) : task[u].pc # "idle"

countRequest_staleRead(m) ==
  IF \E t \in 1..MaxInflight : task[t].pc # "idle"
  THEN m ELSE [m EXCEPT !.totalRequests = @ + 1]

\* connectionPool.metrics.totalRequests++
countRequest(m) == [m EXCEPT !.totalRequests = @ + 1]

\* handleRequest from "Select optimal backend" up to the await of fetch
RouteAndForward(t, method, path, country, headers, body) ==
  LET b == selectBackend(backends, country)
  IN IF b = 0
     THEN /\ response' = NoBackendResponse
          /\ task' = [task EXCEPT ![t] = IdleTask]
     ELSE /\ task' = [task EXCEPT ![t] =
                        [IdleTask EXCEPT
                           !.pc = "fetch", !.method = method,
                           !.path = path, !.country = country,
                           !.headers = headers, !.body = body,
                           !.forwarded =
                              ForwardedRequest(backends[b].url, method, path,
                                               headers, body),
                           !.backend = b, !.startTime = now]]
          /\ UNCHANGED response

\* the session set up by handleWebSocket at time t: server.accept(), the
\* keep-alive interval armed, the message and close listeners registered.
\*   open      the close event has not been delivered
\*   peerGone  the transport is dead: server.send throws
\*   timer     keepAliveInterval is armed; due is when it fires next
\*   attempts  history: runs of the interval callback
\*   received  history: payloads of the message events, in receive order
\*   sent      history: envelopes server.send delivered, in send order
NewSession(t) ==
  [open |-> TRUE, peerGone |-> FALSE, timer |-> TRUE, openedAt |-> t,
   due |-> t + keepAliveInterval, attempts |-> 0, received |-> <<>>,
   sent |-> <<>>]

handleWebSocket_noHeaderCheck(req) ==
  /\ Len(sessions) < MaxSessions
  /\ sessions' = Append(sessions, NewSession(now))
  /\ response' = [status |-> 101, headers |-> {},
                  body |-> [webSocket |-> Len(sessions) + 1]]

\* handleWebSocket
handleWebSocket(req) ==
  IF req.upgrade # "websocket"
  THEN /\ response' = [status |-> 426, headers |-> {},
                       body |-> "Expected WebSocket"]
       /\ UNCHANGED sessions
  ELSE /\ Len(sessions) < MaxSessions
       /\ sessions' = Append(sessions, NewSession(now))
       /\ response' = [status |-> 101, headers |-> {},
                       body |-> [webSocket |-> Len(sessions) + 1]]

HandleRequest_limitsAll(req) ==
  LET m == countRequest(metrics)
      clientId == IF req.ip = "" THEN "unknown" ELSE req.ip
      limit == checkLimit(requests, clientId, now)
  IN /\ inbound < MaxRequests
     /\ inbound' = inbound + 1
     /\ metrics' = m
     /\ UNCHANGED <<config, now, backends, cache, sched,
                    failedSinceProbe, failedInFlight, lastStored>>
     /\ IF req.path = <<"/health">>
        THEN /\ response' = IF limit[1] THEN HealthResponse(m)
                             ELSE RateLimitResponse
             /\ requests' = limit[2]
             /\ UNCHANGED <<decisions, sessions, task>>
        ELSE IF req.path = <<"/metrics">>
        THEN /\ response' = MetricsResponse(m)
             /\ UNCHANGED <<requests, decisions, sessions, task>>
        ELSE IF req.path = <<"/ws">> \/ req.upgrade = "websocket"
        THEN /\ handleWebSocket(req)
             /\ UNCHANGED <<requests, decisions, task>>
        ELSE /\ requests' = limit[2]
             /\ decisions' = [decisions EXCEPT ![clientId] =
                                Append(@, [t |-> now, allowed |-> limit[1]])]
             /\ UNCHANGED sessions
             /\ IF ~limit[1]
                THEN /\ response' = RateLimitResponse
                     /\ UNCHANGED task
                ELSE IF shouldCache(req.method, req.path)
                THEN /\ HasFreeSlot
                     /\ task' = [task EXCEPT ![FreeSlot] =
                                   [IdleTask EXCEPT !.pc = "match",
                                                    !.method = req.method,
                                                    !.path = req.path,
                                                    !.country = req.country,
                                                    !.headers =
                                                       RequestHeaders(req),
                                                    !.body = req.body]]
                     /\ UNCHANGED response
                ELSE /\ HasFreeSlot
                     /\ RouteAndForward(FreeSlot, req.method, req.path,
                                        req.country, RequestHeaders(req),
                                        req.body)

\* handleRequest from its entry up to its first suspension or its return
HandleRequest(req) ==
  LET m == countRequest(metrics)
      clientId == IF req.ip = "" THEN "unknown" ELSE req.ip
      limit == checkLimit(requests, clientId, now)
  IN /\ inbound < MaxRequests
     /\ inbound' = inbound + 1
     /\ metrics' = m
     /\ UNCHANGED <<config, now, backends, cache, sched,
                    failedSinceProbe, failedInFlight, lastStored>>
     /\ IF req.path = <<"/health">>
        THEN /\ response' = HealthResponse(m)
             /\ UNCHANGED <<requests, decisions, sessions, task>>
        ELSE IF req.path = <<"/metrics">>
        THEN /\ response' = MetricsResponse(m)
             /\ UNCHANGED <<requests, decisions, sessions, task>>
        ELSE IF req.path = <<"/ws">> \/ req.upgrade = "websocket"
        THEN /\ handleWebSocket(req)
             /\ UNCHANGED <<requests, decisions, task>>
        ELSE /\ requests' = limit[2]
             /\ decisions' = [decisions EXCEPT ![clientId] =
                                Append(@, [t |-> now, allowed |-> limit[1]])]
             /\ UNCHANGED sessions
             /\ IF ~limit[1]
                THEN /\ response' = RateLimitResponse
                     /\ UNCHANGED task
                ELSE IF shouldCache(req.method, req.path)
                THEN /\ HasFreeSlot
                     /\ task' = [task EXCEPT ![FreeSlot] =
                                   [IdleTask EXCEPT !.pc = "match",
                                                    !.method = req.method,
                                                    !.path = req.path,
                                                    !.country = req.country,
                                                    !.headers =
                                                       RequestHeaders(req),
                                                    !.body = req.body]]
                     /\ UNCHANGED response
                ELSE /\ HasFreeSlot
                     /\ RouteAndForward(FreeSlot, req.method, req.path,
                                        req.country, RequestHeaders(req),
                                        req.body)

CacheMatchDone_revalidates(t, outcome) ==
  /\ task[t].pc = "match"
  /\ UNCHANGED <<config, now, backends, requests, cache, sessions,
                 sched, inbound, decisions,
                 failedSinceProbe, failedInFlight, lastStored>>
  /\ LET found == cacheMatch(cache, CacheKey(task[t].method, task[t].path))
     IN /\ metrics' = IF outcome # "ok" THEN metrics
                      ELSE IF found # {}
                      THEN [metrics EXCEPT !.cacheHits = @ + 1]
                      ELSE [metrics EXCEPT !.cacheMisses = @ + 1]
        /\ RouteAndForward(t, task[t].method, task[t].path,
                           task[t].country, task[t].headers,
                           task[t].body)

\* CacheManager.get resumes after cache.match, then handleRequest continues
CacheMatchDone(t, outcome) ==
  /\ task[t].pc = "match"
  /\ UNCHANGED <<config, now, backends, requests, cache, sessions,
                 sched, inbound, decisions,
                 failedSinceProbe, failedInFlight, lastStored>>
  /\ LET found == cacheMatch(cache, CacheKey(task[t].method, task[t].path))
     IN IF outcome = "ok" /\ found # {}
        THEN \E e \in found :
               LET m == [metrics EXCEPT !.cacheHits = @ + 1]
               IN /\ metrics' = m
                  /\ response' = HitResponse(e.response, m)
                  /\ task' = [task EXCEPT ![t] = IdleTask]
        ELSE /\ metrics' = IF outcome = "ok"
                           THEN [metrics EXCEPT !.cacheMisses = @ + 1]
                           ELSE metrics
             /\ RouteAndForward(t, task[t].method, task[t].path,
                                task[t].country, task[t].headers,
                                task[t].body)

ForwardSucceeded_checksStatus(t, reply) ==
  /\ task[t].pc = "fetch"
  /\ UNCHANGED <<config, now, requests, metrics, cache,
                 sessions, sched, inbound, decisions,
                 failedSinceProbe, failedInFlight,
                 lastStored>>
  /\ LET latency == now - task[t].startTime
     IN IF reply.status # 200
        THEN /\ backends' =
                  [backends EXCEPT ![task[t].backend].healthy = FALSE]
             /\ response' = BadGatewayResponse(task[t].backend, "bad status")
             /\ task' = [task EXCEPT ![t] = IdleTask]
        ELSE IF shouldCache(task[t].method, task[t].path)
        THEN /\ task' = [task EXCEPT ![t].pc = "put", ![t].reply = reply,
                                     ![t].latency = latency]
             /\ UNCHANGED <<response, backends>>
        ELSE /\ response' = MissResponse(reply, task[t].backend, latency)
             /\ task' = [task EXCEPT ![t] = IdleTask]
             /\ UNCHANGED backends

\* handleRequest resumes after fetch resolved with reply
ForwardSucceeded(t, reply) ==
  /\ task[t].pc = "fetch"
  /\ UNCHANGED <<config, now, backends, requests, metrics, cache,
                 sessions, sched, inbound, decisions,
                 failedSinceProbe, failedInFlight,
                 lastStored>>
  /\ LET latency == now - task[t].startTime
     IN IF shouldCache(task[t].method, task[t].path)
        THEN /\ task' = [task EXCEPT ![t].pc = "put", ![t].reply = reply,
                                     ![t].latency = latency]
             /\ UNCHANGED response
        ELSE /\ response' = MissResponse(reply, task[t].backend, latency)
             /\ task' = [task EXCEPT ![t] = IdleTask]

ForwardFailed_marksAll(t, message) ==
  /\ task[t].pc = "fetch"
  /\ UNCHANGED <<config, now, requests, metrics, cache, sessions,
                 sched, inbound, decisions, lastStored>>
  /\ backends' = [i \in DOMAIN backends |->
                    [backends[i] EXCEPT !.healthy = FALSE]]
  /\ failedSinceProbe' = failedSinceProbe \cup {task[t].backend}
  /\ failedInFlight' =
       IF sched.pc = "probe" /\ sched.i = task[t].backend
       THEN failedInFlight \cup {task[t].backend}
       ELSE failedInFlight
  /\ response' = BadGatewayResponse(task[t].backend, message)
  /\ task' = [task EXCEPT ![t] = IdleTask]

ForwardFailed_unmarked(t, message) ==
  /\ task[t].pc = "fetch"
  /\ UNCHANGED <<config, now, requests, metrics, cache, sessions,
                 sched, inbound, decisions, lastStored, backends>>
  /\ failedSinceProbe' = failedSinceProbe \cup {task[t].backend}
  /\ failedInFlight' =
       IF sched.pc = "probe" /\ sched.i = task[t].backend
       THEN failedInFlight \cup {task[t].backend}
       ELSE failedInFlight
  /\ response' = BadGatewayResponse(task[t].backend, message)
  /\ task' = [task EXCEPT ![t] = IdleTask]

ForwardFailed_retry(t, message) ==
  /\ task[t].pc = "fetch"
  /\ UNCHANGED <<config, now, requests, metrics, cache, sessions,
                 sched, inbound, decisions, lastStored>>
  /\ backends' = [backends EXCEPT ![task[t].backend].healthy = FALSE]
  /\ failedSinceProbe' = failedSinceProbe \cup {task[t].backend}
  /\ failedInFlight' =
       IF sched.pc = "probe" /\ sched.i = task[t].backend
       THEN failedInFlight \cup {task[t].backend}
       ELSE failedInFlight
  /\ LET next == selectBackend(backends', task[t].country)
     IN IF next # task[t].backend
        THEN /\ task' = [task EXCEPT ![t].backend = next]
             /\ UNCHANGED response
        ELSE /\ response' = BadGatewayResponse(task[t].backend, message)
             /\ task' = [task EXCEPT ![t] = IdleTask]

ForwardFailed_storesError(t, message) ==
  /\ task[t].pc = "fetch"
  /\ UNCHANGED <<config, now, requests, metrics, sessions,
                 sched, inbound, decisions, lastStored>>
  /\ cache' = IF shouldCache(task[t].method, task[t].path)
              THEN cachePut(cache, CacheKey(task[t].method, task[t].path),
                            cachedResponse(Reply(502, message)))
              ELSE cache
  /\ backends' = [backends EXCEPT ![task[t].backend].healthy = FALSE]
  /\ failedSinceProbe' = failedSinceProbe \cup {task[t].backend}
  /\ failedInFlight' =
       IF sched.pc = "probe" /\ sched.i = task[t].backend
       THEN failedInFlight \cup {task[t].backend}
       ELSE failedInFlight
  /\ response' = BadGatewayResponse(task[t].backend, message)
  /\ task' = [task EXCEPT ![t] = IdleTask]

\* handleRequest resumes after fetch rejected: the catch block
ForwardFailed(t, message) ==
  /\ task[t].pc = "fetch"
  /\ UNCHANGED <<config, now, requests, metrics, cache, sessions,
                 sched, inbound, decisions, lastStored>>
  /\ backends' = [backends EXCEPT ![task[t].backend].healthy = FALSE]
  /\ failedSinceProbe' = failedSinceProbe \cup {task[t].backend}
  /\ failedInFlight' =
       IF sched.pc = "probe" /\ sched.i = task[t].backend
       THEN failedInFlight \cup {task[t].backend}
       ELSE failedInFlight
  /\ response' = BadGatewayResponse(task[t].backend, message)
  /\ task' = [task EXCEPT ![t] = IdleTask]

CachePutDone_propagates(t, outcome) ==
  /\ task[t].pc = "put"
  /\ UNCHANGED <<config, now, requests, metrics, sessions,
                 sched, inbound, decisions, failedSinceProbe, failedInFlight>>
  /\ LET key == CacheKey(task[t].method, task[t].path)
         toStore == cachedResponse(task[t].reply)
     IN IF outcome = "ok"
        THEN /\ cache' = cachePut(cache, key, toStore)
             /\ lastStored' =
                  MapSet(lastStored, key,
                         [response |-> toStore,
                          seq |-> IF key \in DOMAIN lastStored
                                  THEN lastStored[key].seq + 1 ELSE 1])
             /\ response' = MissResponse(task[t].reply, task[t].backend,
                                         task[t].latency)
             /\ UNCHANGED backends
        ELSE /\ UNCHANGED <<cache, lastStored>>
             /\ backends' =
                  [backends EXCEPT ![task[t].backend].healthy = FALSE]
             /\ response' = BadGatewayResponse(task[t].backend,
                                               "cache put failed")
  /\ task' = [task EXCEPT ![t] = IdleTask]

\* CacheManager.put resumes after cache.put, then handleRequest returns
CachePutDone(t, outcome) ==
  /\ task[t].pc = "put"
  /\ UNCHANGED <<config, now, backends, requests, metrics, sessions,
                 sched, inbound, decisions, failedSinceProbe, failedInFlight>>
  /\ LET key == CacheKey(task[t].method, task[t].path)
         toStore == cachedResponse(task[t].reply)
     IN IF outcome = "ok"
        THEN /\ cache' = cachePut(cache, key, toStore)
             /\ lastStored' =
                  MapSet(lastStored, key,
                         [response |-> toStore,
                          seq |-> IF key \in DOMAIN lastStored
                                  THEN lastStored[key].seq + 1 ELSE 1])
        ELSE UNCHANGED <<cache, lastStored>>
  /\ response' = MissResponse(task[t].reply, task[t].backend, task[t].latency)
  /\ task' = [task EXCEPT ![t] = IdleTask]

----------------------------------------------------------------------------
(* handleScheduled *)
checkHealth_anyAnswer(outcome) == outcome \in {"ok", "status"}

checkHealth(outcome) == outcome = "ok"

\* handleScheduled up to the first probe's fetch
ScheduledStart ==
  /\ sched.pc = "idle"
  /\ UNCHANGED <<config, now, backends, metrics, cache, sessions, task,
                 response, inbound, decisions,
                 failedSinceProbe, failedInFlight, lastStored>>
  /\ IF Len(backends) = 0
     THEN /\ requests' = cleanup(requests, now)
          /\ UNCHANGED sched
     ELSE /\ sched' = [pc |-> "probe", i |-> 1]
          /\ UNCHANGED requests

ProbeDone_abortsOnFailure(outcome) ==
  /\ sched.pc = "probe"
  /\ UNCHANGED <<config, now, metrics, cache, sessions, task, response, inbound,
                 decisions, lastStored>>
  /\ failedSinceProbe' = failedSinceProbe \ {sched.i}
  /\ failedInFlight' = failedInFlight \ {sched.i}
  /\ IF ~checkHealth(outcome)
     THEN /\ sched' = [pc |-> "idle", i |-> 0]
          /\ UNCHANGED <<backends, requests>>
     ELSE /\ backends' = [backends EXCEPT ![sched.i].healthy = TRUE]
          /\ IF sched.i < Len(backends)
             THEN /\ sched' = [pc |-> "probe", i |-> sched.i + 1]
                  /\ UNCHANGED requests
             ELSE /\ sched' = [pc |-> "idle", i |-> 0]
                  /\ requests' = cleanup(requests, now)

\* updateHealthStatus resumes after checkHealth(backends[i])
ProbeDone(outcome) ==
  /\ sched.pc = "probe"
  /\ UNCHANGED <<config, now, metrics, cache, sessions, task, response, inbound,
                 decisions, lastStored>>
  /\ LET healthy == checkHealth(outcome)
     IN backends' = [backends EXCEPT ![sched.i].healthy = healthy]
  /\ failedSinceProbe' = failedSinceProbe \ {sched.i}
  /\ failedInFlight' = failedInFlight \ {sched.i}
  /\ IF sched.i < Len(backends)
     THEN /\ sched' = [pc |-> "probe", i |-> sched.i + 1]
          /\ UNCHANGED requests
     ELSE /\ sched' = [pc |-> "idle", i |-> 0]
          /\ requests' = cleanup(requests, now)

----------------------------------------------------------------------------
(* WebSocket sessions: the callbacks handleWebSocket registers *)
PongText == "{type:pong}"
MessageText == "{type:message,timestamp:0}"
EchoText == "{type:echo,timestamp:0}"
NullText == "null"
MalformedText == "not json"
Payloads == {PongText, MessageText, EchoText, NullText, MalformedText}

\* JSON.parse(event.data): ok is false when it throws, null is true when
\* it returns null, on which the listener's data.type throws in turn
JSONparse(text) ==
  CASE text = PongText ->
         [ok |-> TRUE, null |-> FALSE, data |-> [type |-> "pong"]]
    [] text = MessageText ->
         [ok |-> TRUE, null |-> FALSE,
          data |-> [type |-> "message", timestamp |-> 0]]
    [] text = EchoText ->
         [ok |-> TRUE, null |-> FALSE,
          data |-> [type |-> "echo", timestamp |-> 0]]
    [] text = NullText -> [ok |-> TRUE, null |-> TRUE, data |-> [type |-> ""]]
    [] OTHER -> [ok |-> FALSE, null |-> FALSE, data |-> [type |-> ""]]

\* the try block of the message listener gets past its reads of data
Decodes(text) == JSONparse(text).ok /\ ~JSONparse(text).null

\* error.message of what the try block threw
ErrorMessage(text) ==
  IF JSONparse(text).ok THEN "Cannot read properties of null"
  ELSE "Unexpected token"

\* server.send(JSON.stringify(envelope)): throws when the transport is dead
CanSend(s) == sessions[s].open /\ ~sessions[s].peerGone

SessionFrame ==
  UNCHANGED <<config, now, backends, requests, metrics, cache, task, sched,
              response, inbound, decisions,
              failedSinceProbe, failedInFlight, lastStored>>

\* the setInterval callback of session s runs
KeepAliveTick(s) ==
  /\ s \in DOMAIN sessions
  /\ sessions[s].timer /\ sessions[s].due = now
  /\ SessionFrame
  /\ IF CanSend(s)
     THEN sessions' = [sessions EXCEPT
            ![s].attempts = @ + 1,
            ![s].sent = Append(@, [type |-> "ping", timestamp |-> now]),
            ![s].due = @ + keepAliveInterval]
     ELSE sessions' = [sessions EXCEPT
            ![s].attempts = @ + 1,
            ![s].timer = FALSE]

SessionMessage_pongReplies(s, text) ==
  /\ s \in DOMAIN sessions
  /\ sessions[s].open
  /\ Len(sessions[s].received) < MaxReceived
  /\ SessionFrame
  /\ LET parsed == JSONparse(text)
         reply == IF Decodes(text)
                  THEN [type |-> "response", data |-> parsed.data,
                        timestamp |-> now, latency |-> now]
                  ELSE [type |-> "error", error |-> ErrorMessage(text)]
     IN IF ~CanSend(s)
        THEN sessions' = [sessions EXCEPT ![s].received = Append(@, text)]
        ELSE sessions' = [sessions EXCEPT ![s].received = Append(@, text),
                                          ![s].sent = Append(@, reply)]

SessionMessage_closesOnError(s, text) ==
  /\ s \in DOMAIN sessions
  /\ sessions[s].open
  /\ Len(sessions[s].received) < MaxReceived
  /\ SessionFrame
  /\ LET parsed == JSONparse(text)
         reply == [type |-> "response", data |-> parsed.data,
                   timestamp |-> now,
                   latency |-> now - parsed.data.timestamp]
     IN IF ~Decodes(text)
        THEN sessions' = [sessions EXCEPT ![s].received = Append(@, text),
                                          ![s].open = FALSE,
                                          ![s].timer = FALSE]
        ELSE IF parsed.data.type = "pong" \/ ~CanSend(s)
        THEN sessions' = [sessions EXCEPT ![s].received = Append(@, text)]
        ELSE sessions' = [sessions EXCEPT ![s].received = Append(@, text),
                                          ![s].sent = Append(@, reply)]

SessionMessage_latestFirst(s, text) ==
  /\ s \in DOMAIN sessions
  /\ sessions[s].open
  /\ Len(sessions[s].received) < MaxReceived
  /\ SessionFrame
  /\ LET parsed == JSONparse(text)
         reply == IF Decodes(text)
                  THEN [type |-> "response", data |-> parsed.data,
                        timestamp |-> now,
                        latency |-> now - parsed.data.timestamp]
                  ELSE [type |-> "error", error |-> ErrorMessage(text)]
     IN IF (Decodes(text) /\ parsed.data.type = "pong") \/ ~CanSend(s)
        THEN sessions' = [sessions EXCEPT ![s].received = Append(@, text)]
        ELSE sessions' = [sessions EXCEPT ![s].received = Append(@, text),
                                          ![s].sent = <<reply>> \o @]

\* the message listener of session s runs on a message event
SessionMessage(s, text) ==
  /\ s \in DOMAIN sessions
  /\ sessions[s].open
  /\ Len(sessions[s].received) < MaxReceived
  /\ SessionFrame
  /\ LET parsed == JSONparse(text)
         reply == IF Decodes(text)
                  THEN [type |-> "response", data |-> parsed.data,
                        timestamp |-> now,
                        latency |-> now - parsed.data.timestamp]
                  ELSE [type |-> "error", error |-> ErrorMessage(text)]
     IN IF (Decodes(text) /\ parsed.data.type = "pong") \/ ~CanSend(s)
        THEN sessions' = [sessions EXCEPT ![s].received = Append(@, text)]
        ELSE sessions' = [sessions EXCEPT ![s].received = Append(@, text),
                                          ![s].sent = Append(@, reply)]

SessionClose_leavesTimer(s) ==
  /\ s \in DOMAIN sessions
  /\ sessions[s].open
  /\ SessionFrame
  /\ sessions' = [sessions EXCEPT ![s].open = FALSE]

\* the close listener of session s runs
SessionClose(s) ==
  /\ s \in DOMAIN sessions
  /\ sessions[s].open
  /\ SessionFrame
  /\ sessions' = [sessions EXCEPT ![s].open = FALSE, ![s].timer = FALSE]

\* the peer of session s goes away without a close event being delivered
PeerGone(s) ==
  /\ s \in DOMAIN sessions
  /\ sessions[s].open /\ ~sessions[s].peerGone
  /\ SessionFrame
  /\ sessions' = [sessions EXCEPT ![s].peerGone = TRUE]

SessionIds == 1..MaxSessions

\* session record s is open: no close event yet and its peer still there
IsOpen(s) == s.open /\ ~s.peerGone

----------------------------------------------------------------------------
(* Environment *)
Tick ==
  /\ now < MaxTime
  /\ \A s \in DOMAIN sessions : sessions[s].timer => sessions[s].due > now
  /\ now' = now + 1
  /\ UNCHANGED <<config, backends, requests, metrics, cache, sessions,
                 task, sched, response, inbound, decisions,
                 failedSinceProbe, failedInFlight,
                 lastStored>>

\* the cache store drops an entry (max-age elapsed, eviction)
CacheExpire ==
  /\ \E e \in cache : cache' = cache \ {e}
  /\ UNCHANGED <<config, now, backends, requests, metrics, sessions,
                 task, sched, response, inbound, decisions,
                 failedSinceProbe, failedInFlight,
                 lastStored>>

Slots == 1..MaxInflight

----------------------------------------------------------------------------
(* The rate limiter: uncacheable requests and /metrics requests of two     *)
(* clients with no backend configured, the clock and the scheduled cleanup *)
LimiterRequests ==
  [method : {"POST"}, path : {<<"/api", "/data">>, <<"/metrics">>}, ip : Ips,
   country : {""}, upgrade : {""}, headers : {{}},
   body : {""}]

LimiterRegistries == {<<>>}

InitLimiter == InitWith(LimiterRegistries)

NextLimiter ==
  \/ \E req \in LimiterRequests : HandleRequest(req)
  \/ ScheduledStart
  \/ Tick

SpecLimiter == InitLimiter /\ [][NextLimiter]_vars

\* C1: every admission decision of checkLimit for a client at time t is
\* "admit" exactly when fewer than requestsPerMinute of that client's
\* previously admitted requests have a timestamp strictly newer than
\* t - windowMs
C1_AdmitIffBelowLimit ==
  \A c \in ClientIds : \A k \in DOMAIN decisions[c] :
    LET d == decisions[c][k]
        recent == {j \in 1..(k - 1) : /\ decisions[c][j].allowed
                                      /\ decisions[c][j].t > d.t - windowMs}
    IN d.allowed <=> Cardinality(recent) < requestsPerMinute

\* a client filled its window, had its next request inside the window denied
\* and was admitted again once the window had elapsed
C1_Witness ==
  \E c \in ClientIds :
    /\ Len(decisions[c]) = requestsPerMinute + 2
    /\ \A k \in 1..requestsPerMinute :
         decisions[c][k].allowed /\ decisions[c][k].t = 0
    /\ ~decisions[c][requestsPerMinute + 1].allowed
    /\ decisions[c][requestsPerMinute + 1].t < windowMs
    /\ decisions[c][requestsPerMinute + 2].allowed
    /\ decisions[c][requestsPerMinute + 2].t = windowMs

\* the clients with at least one admitted request inside the current window
\* and the clients admitted at any time, both read from the decision history
ActiveClients ==
  {c \in ClientIds : \E k \in DOMAIN decisions[c] :
                        /\ decisions[c][k].allowed
                        /\ decisions[c][k].t > now - windowMs}

EverAdmitted ==
  {c \in ClientIds : \E k \in DOMAIN decisions[c] : decisions[c][k].allowed}

IsMetricsRequest(req) == req.path = <<"/metrics">>

\* C22 as stated: the rateLimits value returned by /metrics equals the
\* number of client ids with at least one admitted request inside the
\* current window at the moment the request is handled
C22_Original ==
  [][\A req \in LimiterRequests :
       (IsMetricsRequest(req) /\ HandleRequest(req)) =>
          response'.body.rateLimits = Cardinality(ActiveClients)]_vars

\* C22: the rateLimits value returned by /metrics is the number of client
\* ids holding a record in the rate-limit table when the request is
\* handled: every client with an admitted request inside the current window
\* is counted, only clients that were admitted at some time are counted,
\* and cleanup() leaves exactly the records of the clients with an admitted
\* request inside the current window
C22_RateLimitsCount ==
  [][/\ \A req \in LimiterRequests :
         (IsMetricsRequest(req) /\ HandleRequest(req)) =>
            /\ response'.body.rateLimits = Cardinality(DOMAIN requests)
            /\ ActiveClients \subseteq DOMAIN requests
            /\ DOMAIN requests \subseteq EverAdmitted
     /\ (ScheduledStart /\ Len(backends) = 0) =>
            DOMAIN requests' = ActiveClients]_vars

\* /metrics answered with one client counted although the only admitted
\* request has left the window and no cleanup has run since
C22_Witness ==
  /\ response.status = 200
  /\ response.body.timestamp = now
  /\ response.body.rateLimits = 1
  /\ ActiveClients = {}
  /\ Cardinality(EverAdmitted) = 1

\* the scheduled handler with no backend to probe: cleanup() runs at once
CleanupStep == ScheduledStart /\ Len(backends) = 0

\* C36: cleanup() leaves no new record; every client id it leaves in the
\* rate-limit table has a timestamp newer than now - windowMs and holds
\* exactly the timestamps of its record that are newer than now - windowMs,
\* in their order; every client whose timestamps had all expired has no
\* record afterwards
C36_CleanupResult ==
  [][CleanupStep =>
       /\ DOMAIN requests' \subseteq DOMAIN requests
       /\ \A c \in DOMAIN requests' :
            /\ \E k \in DOMAIN requests'[c] :
                 requests'[c][k] > now - windowMs
            /\ requests'[c] =
                 SelectSeq(requests[c], LAMBDA x : x > now - windowMs)
       /\ \A c \in DOMAIN requests :
            (\A k \in DOMAIN requests[c] :
               requests[c][k] <= now - windowMs) =>
                 c \notin DOMAIN requests']_vars

\* at the end of the window of time 0, one client admitted at 0 only has
\* lost its record and another, admitted at 0 and at 1 and not heard of
\* since, holds the timestamp 1 alone: cleanup() has run at that time
C36_Witness ==
  /\ now = windowMs
  /\ \E c, d \in ClientIds :
       /\ c # d
       /\ c \in EverAdmitted /\ c \notin DOMAIN requests
       /\ d \in DOMAIN requests /\ requests[d] = <<1>>
       /\ Len(decisions[d]) = 2
       /\ decisions[d][1].allowed /\ decisions[d][1].t = 0
       /\ decisions[d][2].allowed /\ decisions[d][2].t = 1

\* the admit/deny results of the checks of history ds, made one after the
\* other from the record ts with no cleanup() in between
RECURSIVE Replay(_, _)
Replay(ds, ts) ==
  IF ds = <<>> THEN <<>>
  ELSE LET r == checkLimit([c \in {"c"} |-> ts], "c", Head(ds).t)
       IN <<r[1]>> \o Replay(Tail(ds), r[2]["c"])

Allowed(ds) == [k \in DOMAIN ds |-> ds[k].allowed]

\* C37: whatever the points at which cleanup() ran, the admit/deny results
\* of every client are those of the same checks made with no cleanup() at
\* all, and a cleanup() changes the result of no check made at the time it
\* runs or later
C37_CleanupTransparent ==
  /\ [](\A c \in ClientIds : Allowed(decisions[c]) = Replay(decisions[c], <<>>))
  /\ [][CleanupStep =>
          \A c \in ClientIds : \A t \in now..MaxTime :
            checkLimit(requests', c, t)[1] = checkLimit(requests, c, t)[1]]_vars

\* cleanup() has removed the record of a client admitted at time 0 at the
\* end of that window, the time at which another client, admitted twice
\* one time unit earlier, is denied
C37_Witness ==
  /\ now = windowMs
  /\ response.status = 429
  /\ \E c, d \in ClientIds :
       /\ c # d
       /\ c \in EverAdmitted /\ c \notin DOMAIN requests
       /\ Len(decisions[d]) = requestsPerMinute + 1
       /\ \A k \in 1..requestsPerMinute :
            decisions[d][k].allowed /\ decisions[d][k].t = 1
       /\ ~decisions[d][requestsPerMinute + 1].allowed
       /\ decisions[d][requestsPerMinute + 1].t = now

ClientOf(req) == IF req.ip = "" THEN "unknown" ELSE req.ip

LastDecision(c) == decisions'[c][Len(decisions'[c])]

\* C24: a denied admission leaves the rate-limit table as it was, the
\* denied client's window included, and an admission changes the record of
\* the admitted client only, to its pruned window followed by the new
\* timestamp
C24_DenialDoesNotRecord ==
  [][\A req \in LimiterRequests :
       (~IsMetricsRequest(req) /\ HandleRequest(req)) =>
          LET c == ClientOf(req)
          IN IF ~LastDecision(c).allowed
             THEN requests' = requests
             ELSE /\ DOMAIN requests' = DOMAIN requests \cup {c}
                  /\ \A o \in DOMAIN requests \ {c} :
                       requests'[o] = requests[o]
                  /\ requests'[c] =
                       Append(InWindow(History(requests, c), now), now)]_vars

\* a client with a full window was denied one time unit later, the 429 is
\* the last response, the window still holds the two admitted timestamps
\* only and the other client's record is as its admission left it
C24_Witness ==
  \E c \in ClientIds : \E o \in ClientIds \ {c} :
    /\ now = 1
    /\ response.status = 429
    /\ Len(decisions[c]) = requestsPerMinute + 1
    /\ ~decisions[c][requestsPerMinute + 1].allowed
    /\ decisions[c][requestsPerMinute + 1].t = 1
    /\ DOMAIN requests = {c, o}
    /\ requests[c] = [k \in 1..requestsPerMinute |-> 0]
    /\ requests[o] = <<0>>

----------------------------------------------------------------------------
(* Admission under interleaving: uncacheable requests of two clients kept  *)
(* in flight by one backend, the health refresh and the clock              *)
AdmissionRequests ==
  [method : {"POST"}, path : {<<"/api", "/data">>}, ip : Ips,
   country : {""}, upgrade : {""}, headers : {{}},
   body : {""}]

AdmissionRegistries ==
  {Registry(<<[priority |-> 1, region |-> "us-east"]>>)}

InitAdmission == InitWith(AdmissionRegistries)

NextAdmission ==
  \/ \E req \in AdmissionRequests :
       inbound < MaxAdmissions /\ HandleRequest(req)
  \/ \E t \in Slots : ForwardSucceeded(t, Reply(200, "v1"))
  \/ ScheduledStart
  \/ ProbeDone("ok")
  \/ Tick

SpecAdmission == InitAdmission /\ [][NextAdmission]_vars

\* the admitted requests of client c with a timestamp newer than
\* now - windowMs, read from the decision history
AdmittedInWindow(c) ==
  {k \in DOMAIN decisions[c] : /\ decisions[c][k].allowed
                               /\ decisions[c][k].t > now - windowMs}

\* the requests of client c whose forward is in flight
InFlight(c) ==
  {t \in Slots : /\ task[t].pc = "fetch"
                 /\ <<"cf-connecting-ip", c>> \in task[t].headers}

\* C23: request tasks interleave only at their suspension points, so two
\* in-flight requests of a client are never both admitted against the last
\* free slot: in every reachable state each client has at most
\* requestsPerMinute admitted requests, and its window in the table at most
\* requestsPerMinute timestamps, newer than now - windowMs
C23_NoOverAdmission ==
  \A c \in ClientIds :
    /\ Cardinality(AdmittedInWindow(c)) <= requestsPerMinute
    /\ Len(InWindow(History(requests, c), now)) <= requestsPerMinute

\* requestsPerMinute requests of one client are in flight together, all
\* admitted at the same time, and the client's next request at that time
\* was denied
C23_Witness ==
  \E c \in ClientIds :
    /\ Cardinality(InFlight(c)) = requestsPerMinute
    /\ Len(decisions[c]) = requestsPerMinute + 1
    /\ \A k \in 1..requestsPerMinute :
         decisions[c][k].allowed /\ decisions[c][k].t = now
    /\ ~decisions[c][requestsPerMinute + 1].allowed
    /\ decisions[c][requestsPerMinute + 1].t = now

----------------------------------------------------------------------------
(* The router: up to MaxRouted uncacheable requests with a country hint    *)
(* against every registry of up to MaxBackends backends, with forwards     *)
(* that succeed or fail and the scheduled health probes                    *)
RouterRequests ==
  [method : {"POST"}, path : {<<"/api", "/data">>}, ip : {""},
   country : {"", "GB"}, upgrade : {""}, headers : {{}},
   body : {""}]

InitRouter == InitWith({Registry(f) : f \in Registries})

NextRouter ==
  \/ \E req \in RouterRequests : inbound < MaxRouted /\ HandleRequest(req)
  \/ \E t \in Slots : ForwardSucceeded(t, Reply(200, "v1"))
  \/ \E t \in Slots : ForwardFailed(t, "fetch failed")
  \/ ScheduledStart
  \/ \E o \in ProbeOutcomes : ProbeDone(o)

SpecRouter == InitRouter /\ [][NextRouter]_vars

\* task t calls fetch in this step, on the backend it has just selected
Selected(t) == task[t].pc # "fetch" /\ task'[t].pc = "fetch"

HealthyIdx(bs) == {i \in 1..Len(bs) : bs[i].healthy}

HintRegion(countryHeader) ==
  getRegionFromCountry(IF countryHeader = "" THEN "US" ELSE countryHeader)

RegionalIdx(bs, countryHeader) ==
  {i \in HealthyIdx(bs) : bs[i].region = HintRegion(countryHeader)}

\* C2: when a healthy backend of the request's resolved region exists,
\* the backend selected is healthy and of that region, whatever the
\* priorities of the healthy backends of other regions
C2_RegionAffinity ==
  [][\A t \in Slots :
       (Selected(t) /\ RegionalIdx(backends, task'[t].country) # {})
         => task'[t].backend \in RegionalIdx(backends, task'[t].country)]_vars

\* A (us-east, priority 1) and B (eu-west, priority 2) are healthy and a
\* request resolved to eu-west is being forwarded to B
C2_Witness ==
  \E t \in Slots :
    /\ task[t].pc = "fetch" /\ task[t].country = "GB" /\ task[t].backend = 2
    /\ Len(backends) = 2
    /\ backends[1].healthy /\ backends[1].region = "us-east"
    /\ backends[1].priority = 1
    /\ backends[2].healthy /\ backends[2].region = "eu-west"
    /\ backends[2].priority = 2

\* C3: when some backend is healthy the backend selected is healthy, and
\* when no healthy backend is of the request's region it is the healthy
\* backend of lowest priority value, the first registered among equals
C3_Failover ==
  [][\A t \in Slots :
       (Selected(t) /\ HealthyIdx(backends) # {})
         => /\ task'[t].backend \in HealthyIdx(backends)
            /\ RegionalIdx(backends, task'[t].country) = {}
                 => \A j \in HealthyIdx(backends) :
                      \/ backends[task'[t].backend].priority
                           < backends[j].priority
                      \/ /\ backends[task'[t].backend].priority
                              = backends[j].priority
                         /\ task'[t].backend <= j]_vars

\* the only eu-west backend is unhealthy and a request resolved to eu-west
\* is being forwarded to the healthy backend of the other region
C3_Witness ==
  \E t \in Slots :
    /\ task[t].pc = "fetch" /\ task[t].country = "GB"
    /\ Len(backends) = 2
    /\ backends[1].region = "eu-west" /\ ~backends[1].healthy
    /\ backends[1].priority = 1
    /\ backends[2].region = "us-east" /\ backends[2].healthy
    /\ task[t].backend = 2

\* C4: when no backend is healthy and the registry is not empty, the backend
\* selected is the first configured one, and the selection changes neither
\* the registry's order nor any health flag
C4_DegradedMode ==
  [][\A t \in Slots :
       (Selected(t) /\ HealthyIdx(backends) = {})
         => task'[t].backend = 1 /\ backends' = backends]_vars

\* no backend is healthy, the second backend has the lower priority value and
\* the hinted region, and two requests are being forwarded to the first
C4_Witness ==
  /\ Len(backends) = 2
  /\ HealthyIdx(backends) = {}
  /\ backends[1].priority = 2 /\ backends[2].priority = 1
  /\ backends[1].region = "us-east" /\ backends[2].region = "eu-west"
  /\ failedSinceProbe = {}
  /\ \A t \in {1, 2} : /\ task[t].pc = "fetch" /\ task[t].backend = 1
                       /\ task[t].country = "GB"

----------------------------------------------------------------------------
(* Fail-fast marking: uncacheable requests and /health requests against    *)
(* one to MaxBackends backends of one region in priority order, with       *)
(* forwards that succeed or fail and the scheduled health probes           *)
FailFastRequests ==
  [method : {"POST"}, path : {<<"/api", "/data">>}, ip : {""},
   country : {""}, upgrade : {""}, headers : {{}},
   body : {""}]
  \cup [method : {"GET"}, path : {<<"/health">>}, ip : {""},
        country : {""}, upgrade : {""}, headers : {{}},
   body : {""}]

FailFastRegistries ==
  {Registry([i \in 1..n |-> [priority |-> i, region |-> "us-east"]]) :
     n \in 1..MaxBackends}

InitFailFast == InitWith(FailFastRegistries)

NextFailFast ==
  \/ \E req \in FailFastRequests : HandleRequest(req)
  \/ \E t \in Slots : ForwardSucceeded(t, Reply(200, "v1"))
  \/ \E t \in Slots : ForwardFailed(t, "fetch failed")
  \/ ScheduledStart
  \/ \E o \in ProbeOutcomes : ProbeDone(o)

SpecFailFast == InitFailFast /\ [][NextFailFast]_vars

\* this step returned the /health response
HealthServed ==
  /\ inbound' = inbound + 1
  /\ response'.status = 200
  /\ response'.headers = {<<"content-type", "application/json">>}
  /\ "backends" \in DOMAIN response'.body
  /\ response'.body.metrics.totalRequests = metrics'.totalRequests

\* task t's forward failed in this step: the 502 was returned
ForwardFailure(t) ==
  /\ task[t].pc = "fetch" /\ task'[t].pc = "idle"
  /\ response'.status = 502

\* C5: a failed forward to backend X leaves X.healthy false when the request
\* completes, and every /health response returned while the failure is the
\* last write of X's flag (no probe of X has completed since) reports X
\* with healthy = false
C5_ForwardFailureMarks ==
  [][/\ \A t \in Slots :
          ForwardFailure(t) => ~backends'[task[t].backend].healthy
     /\ HealthServed =>
          \A i \in 1..Len(backends) :
            i \in failedSinceProbe
              => ~response'.body.backends[i].healthy]_vars

\* a forward to the first of two backends failed, no probe of it has
\* completed since, and the /health response returned after the failure
\* (the last response) reports the first backend unhealthy and the second
\* healthy
C5_Witness ==
  /\ Len(backends) = 2
  /\ failedSinceProbe = {1}
  /\ sched.pc = "idle"
  /\ response.status = 200
  /\ response.headers = {<<"content-type", "application/json">>}
  /\ "backends" \in DOMAIN response.body
  /\ ~response.body.backends[1].healthy
  /\ response.body.backends[2].healthy

\* the refresh writes the result of its completed probe of backend i
ProbeWrote(i) ==
  /\ sched.pc = "probe" /\ sched.i = i
  /\ \E o \in ProbeOutcomes :
       ProbeDone(o) /\ backends'[i].healthy = checkHealth(o)

\* C25: a backend's healthy flag changes only when the refresh writes the
\* result of a completed probe of that backend or when a forward to that
\* backend fails; a failed forward sets the flag of the backend it selected
\* to false and leaves every other backend as it was; a flag goes from
\* false to true only through a probe of that backend reporting healthy
C25_HealthFlagWriters ==
  [][/\ \A i \in 1..Len(backends) :
          /\ backends'[i].healthy # backends[i].healthy =>
                \/ ProbeWrote(i)
                \/ \E t \in Slots :
                     ForwardFailure(t) /\ task[t].backend = i
          /\ (~backends[i].healthy /\ backends'[i].healthy) =>
                ProbeWrote(i) /\ ProbeDone("ok")
     /\ \A t \in Slots :
          ForwardFailure(t) =>
            /\ ~backends'[task[t].backend].healthy
            /\ \A j \in 1..Len(backends) :
                 j # task[t].backend => backends'[j] = backends[j]]_vars

\* the last response is the 502 of a failed forward to the first of two
\* backends, whose flag a later probe has set back to true while the
\* refresh goes on to probe the second backend, still healthy
C25_Witness ==
  /\ Len(backends) = 2
  /\ response.status = 502
  /\ response.body.backend = backends[1].url
  /\ failedSinceProbe = {}
  /\ sched.pc = "probe" /\ sched.i = 2
  /\ backends[1].healthy /\ backends[2].healthy

\* C26: a probe of backend X that was in flight when a forward to X failed
\* never overwrites the unhealthy mark of that failure: when the refresh
\* writes the result of such a probe, X is still unhealthy
C26_NoStaleProbeOverwrite ==
  [][\A i \in 1..Len(backends) :
       (ProbeWrote(i) /\ i \in failedInFlight) =>
          ~backends'[i].healthy]_vars

\* C6: a request calls fetch once, on the backend it selected: a task
\* waiting for its forward or its store never starts another forward nor
\* changes backend, and it ends either with the 502 whose JSON body names
\* that backend (only from the forward, which marks it unhealthy) or with
\* the backend's reply, marked with that backend
C6_SingleShot ==
  [][\A t \in Slots :
       /\ (task'[t].pc = "fetch" /\ task'[t] # task[t])
            => task[t].pc \in {"idle", "match"}
       /\ task[t].pc \in {"fetch", "put"}
            => task'[t].pc = "idle" \/ task'[t].backend = task[t].backend
       /\ (task[t].pc \in {"fetch", "put"} /\ task'[t].pc = "idle")
            => \/ /\ task[t].pc = "fetch"
                  /\ response'.status = 502
                  /\ response'.headers
                       = {<<"content-type", "application/json">>}
                  /\ response'.body.backend = backends[task[t].backend].url
                  /\ ~backends'[task[t].backend].healthy
                  /\ \A i \in 1..Len(backends) :
                       i # task[t].backend => backends'[i] = backends[i]
               \/ /\ <<"x-backend", backends[task[t].backend].url>>
                       \in response'.headers
                  /\ backends' = backends]_vars

\* a forward to the first of two backends failed while the second was
\* healthy: the 502 names the first and no request is in flight
C6_Witness ==
  /\ Len(backends) = 2
  /\ response.status = 502
  /\ response.body.backend = backends[1].url
  /\ ~backends[1].healthy /\ backends[2].healthy
  /\ failedSinceProbe = {1}
  /\ \A t \in Slots : task[t].pc = "idle"

\* this step took a request to "Select optimal backend": it was admitted and
\* is not cacheable, or its cache lookup came back without a hit
Routed ==
  \/ /\ inbound' = inbound + 1
     /\ \E c \in ClientIds :
          /\ Len(decisions'[c]) = Len(decisions[c]) + 1
          /\ decisions'[c][Len(decisions'[c])].allowed
     /\ \A t \in Slots : ~(task[t].pc # "match" /\ task'[t].pc = "match")
  \/ \E t \in Slots :
       /\ task[t].pc = "match" /\ task'[t].pc # "match"
       /\ metrics'.cacheHits = metrics.cacheHits

Answered503 ==
  /\ response' = NoBackendResponse
  /\ \A t \in Slots : ~Selected(t)

----------------------------------------------------------------------------
(* The cache: up to MaxCached GET and POST requests of two clients to a    *)
(* cacheable and a bypassed path against one backend, with cache lookups   *)
(* and stores that succeed or fail, two backend replies, and entries that  *)
(* expire                                                                  *)
CacheRequests ==
  [method : {"GET", "POST"},
   path : {<<"/api", "/data">>, <<"/api", "/realtime", "/feed">>},
   ip : Ips, country : {""}, upgrade : {""}, headers : {{}},
   body : {""}]

CacheRegistries ==
  {Registry(<<[priority |-> 1, region |-> "us-east"]>>)}

InitCache == InitWith(CacheRegistries)

NextCache ==
  \/ \E req \in CacheRequests : inbound < MaxCached /\ HandleRequest(req)
  \/ \E t \in Slots, o \in CacheOutcomes : CacheMatchDone(t, o)
  \/ \E t \in Slots, body \in {"v1", "v2"} :
       ForwardSucceeded(t, Reply(200, body))
  \/ \E t \in Slots : ForwardFailed(t, "fetch failed")
  \/ \E t \in Slots, o \in CacheOutcomes : CachePutDone(t, o)
  \/ CacheExpire

SpecCache == InitCache /\ [][NextCache]_vars

\* the claim's cacheable requests: GET, on a path no bypass prefix starts
Cacheable(method, path) ==
  /\ method = "GET"
  /\ \A p \in bypassPaths : ~StartsWith(path, p)

\* this step answered task t's request from the cache
HitServed(t) ==
  /\ task[t].pc = "match" /\ task'[t].pc = "idle"
  /\ <<"x-cache", "HIT">> \in response'.headers

\* C9: every request answered from the cache is a GET on a non-bypassed
\* path, only such requests wait on a cache lookup or a cache store, and
\* every entry of the cache store is keyed by a GET on a non-bypassed path
C9_CacheBypass ==
  [][/\ \A t \in Slots :
          /\ HitServed(t) => Cacheable(task[t].method, task[t].path)
          /\ task'[t].pc \in {"match", "put"}
               => Cacheable(task'[t].method, task'[t].path)
     /\ \A e \in cache' : Cacheable(e.key.method, e.key.path)]_vars

\* three requests were admitted and one of them looked the cache up: the
\* store holds the cacheable path's entry, a GET to the bypassed path and a
\* POST to the cached path are both being forwarded, and the last response
\* came from the backend (MISS)
C9_Witness ==
  /\ \E e \in cache : e.key = CacheKey("GET", <<"/api", "/data">>)
  /\ <<"x-cache", "MISS">> \in response.headers
  /\ metrics.cacheHits = 0 /\ metrics.cacheMisses = 1
  /\ inbound = 3
  /\ \A c \in ClientIds : \A k \in DOMAIN decisions[c] : decisions[c][k].allowed
  /\ \E t \in Slots : /\ task[t].pc = "fetch" /\ task[t].method = "POST"
                      /\ task[t].path = <<"/api", "/data">>
  /\ \E t \in Slots : /\ task[t].pc = "fetch" /\ task[t].method = "GET"
                      /\ task[t].path = <<"/api", "/realtime", "/feed">>

\* the entries the cache store holds for the request of task t
Found(t) == cacheMatch(cache, CacheKey(task[t].method, task[t].path))

\* C28: when the lookup for an admitted request finds an entry, the entry
\* is returned with x-cache: HIT and the request ends there: it selects no
\* backend, forwards nothing, writes nothing to the cache, changes no
\* health flag and leaves the other requests in flight as they are
C28_CacheHitShortCircuits ==
  [][\A t \in Slots :
       (CacheMatchDone(t, "ok") /\ Found(t) # {}) =>
          /\ \E e \in Found(t) :
               /\ response'.status = e.response.status
               /\ response'.body = e.response.body
               /\ e.response.headers \subseteq response'.headers
          /\ <<"x-cache", "HIT">> \in response'.headers
          /\ task'[t] = IdleTask
          /\ \A u \in Slots \ {t} : task'[u] = task[u]
          /\ cache' = cache /\ lastStored' = lastStored
          /\ backends' = backends]_vars

\* two requests were delivered, the first was forwarded and stored, the
\* second was answered from the store: one completed store, nothing in
\* flight, the backend still healthy
C28_Witness ==
  /\ inbound = 2
  /\ <<"x-cache", "HIT">> \in response.headers
  /\ response.body = "v1"
  /\ metrics.cacheHits = 1 /\ metrics.cacheMisses = 1
  /\ \A t \in Slots : task[t] = IdleTask
  /\ \A k \in DOMAIN lastStored : lastStored[k].seq = 1
  /\ Cardinality(cache) = 1
  /\ backends[1].healthy

\* C29: a backing-store failure during lookup is treated as not found, the
\* request goes on to select a backend and forward; a backing-store
\* failure during store leaves the response returned to the client what it
\* is after a successful store, the backend's reply with its status and the
\* MISS headers, and stores nothing; neither failure ends the request
C29_CacheErrorsNonFatal ==
  [][\A t \in Slots :
       /\ CacheMatchDone(t, "error") =>
            /\ task'[t].pc = "fetch"
            /\ task'[t].backend = selectBackend(backends, task[t].country)
            /\ response' = response
       /\ CachePutDone(t, "error") =>
            /\ response'.status = task[t].reply.status
            /\ response'.body = task[t].reply.body
            /\ <<"x-cache", "MISS">> \in response'.headers
            /\ response' = MissResponse(task[t].reply, task[t].backend,
                                        task[t].latency)
            /\ cache' = cache /\ backends' = backends
            /\ task'[t] = IdleTask]_vars

\* two cacheable GETs are being forwarded although only one lookup was
\* counted as a miss and none as a hit: the lookup of the other failed and
\* the request went on; an earlier reply came back as a MISS with the
\* status of the backend and no store has completed
C29_Witness ==
  /\ inbound = 3
  /\ metrics.cacheMisses = 1 /\ metrics.cacheHits = 0
  /\ cache = {} /\ DOMAIN lastStored = {}
  /\ <<"x-cache", "MISS">> \in response.headers
  /\ response.status = 200
  /\ \A t \in Slots : /\ task[t].method = "GET"
                       /\ task[t].path = <<"/api", "/data">>
                       /\ task[t].pc = "fetch"

\* the lookup of task t's request ends in this step
LookupDone(t) == task[t].pc = "match" /\ task'[t].pc # "match"

Bump(found) == IF found THEN 1 ELSE 0

\* C30: when the lookup of a request ends, cacheHits increases by 1 exactly
\* when an entry was found and cacheMisses by 1 exactly when none was; no
\* other step changes either counter, so requests that are not cacheable
\* change neither and neither decreases; cacheHits + cacheMisses never
\* exceeds totalRequests
C30_HitMissAccounting ==
  [][/\ \A t \in Slots :
          LookupDone(t) =>
            LET found == CacheMatchDone(t, "ok") /\ Found(t) # {}
            IN /\ metrics'.cacheHits = metrics.cacheHits + Bump(found)
               /\ metrics'.cacheMisses = metrics.cacheMisses + Bump(~found)
     /\ (\A t \in Slots : ~LookupDone(t)) =>
          /\ metrics'.cacheHits = metrics.cacheHits
          /\ metrics'.cacheMisses = metrics.cacheMisses
     /\ metrics'.cacheHits + metrics'.cacheMisses
          <= metrics'.totalRequests]_vars

\* C10: a completed store leaves exactly one entry for its request
\* identity, which a lookup then returns and which is the response just
\* stored; at all times the store holds at most one entry per identity, the
\* response of the latest completed store for it, also when two concurrent
\* misses both store
C10_LastWriteWins ==
  [][/\ \A e1 \in cache' : \A e2 \in cache' : e1.key = e2.key => e1 = e2
     /\ \A e \in cache' :
          /\ e.key \in DOMAIN lastStored'
          /\ e.response = lastStored'[e.key].response
     /\ \A k \in DOMAIN lastStored' :
          (k \notin DOMAIN lastStored \/ lastStored'[k].seq # lastStored[k].seq)
            => cacheMatch(cache', k)
                 = {[key |-> k, response |-> lastStored'[k].response]}]_vars

\* two concurrent misses for one request got different replies and both
\* stored: the store holds the one entry of the second store, and the
\* response of the second store was "v2" after the first stored "v1"
C10_Witness ==
  /\ metrics.cacheMisses = 2 /\ metrics.cacheHits = 0
  /\ \A t \in Slots : task[t].pc = "idle"
  /\ Cardinality(cache) = 1
  /\ \E e \in cache : e.response.body = "v2" /\ lastStored[e.key].seq = 2
  /\ response.body = "v2"
  /\ inbound = 2

\* this step took in a request that checkLimit denied
Denied ==
  /\ inbound' = inbound + 1
  /\ \E c \in ClientIds :
       /\ Len(decisions'[c]) = Len(decisions[c]) + 1
       /\ ~decisions'[c][Len(decisions'[c])].allowed

HeaderNames(h) == {p[1] : p \in h}

\* C12: a request denied by the rate limiter is answered 429 with a
\* retry-after and an x-rate-limit header, and the step that denies it looks
\* nothing up in the cache (cacheHits and cacheMisses unchanged, no task
\* waits), selects and forwards to no backend, and changes no health flag
C12_RateLimitRejection ==
  [][Denied =>
       /\ response'.status = 429
       /\ {"retry-after", "x-rate-limit"} \subseteq HeaderNames(response'.headers)
       /\ metrics'.cacheHits = metrics.cacheHits
       /\ metrics'.cacheMisses = metrics.cacheMisses
       /\ task' = task
       /\ cache' = cache
       /\ backends' = backends]_vars

\* a client's third request inside the window was denied with 429 while the
\* cache held an entry (one miss was stored, nothing was served from it
\* since), the backend was healthy and no request was in flight
C12_Witness ==
  /\ response.status = 429
  /\ \E c \in ClientIds :
       /\ Len(decisions[c]) = requestsPerMinute + 1
       /\ ~decisions[c][requestsPerMinute + 1].allowed
  /\ cache # {}
  /\ metrics.cacheHits = 0 /\ metrics.cacheMisses = 1
  /\ backends[1].healthy
  /\ \A t \in Slots : task[t].pc = "idle"

\* this step returned the backend's reply to task t's request
MissServed(t) ==
  /\ task[t].pc \in {"fetch", "put"} /\ task'[t].pc = "idle"
  /\ response'.status # 502

HeaderValue(h, n) == {p[2] : p \in {q \in h : q[1] = n}}

\* what the worker does set: x-cache on both, x-cache-hits with the current
\* hit count on a HIT only, and the three backend headers on a MISS only
DiagnosticHeadersSet ==
  [][\A t \in Slots :
       /\ HitServed(t) =>
            /\ HeaderValue(response'.headers, "x-cache") = {"HIT"}
            /\ HeaderValue(response'.headers, "x-cache-hits")
                 = {ToString(metrics'.cacheHits)}
            /\ HeaderNames(response'.headers)
                 \cap {"x-backend", "x-latency", "x-region"} = {}
       /\ MissServed(t) =>
            /\ HeaderValue(response'.headers, "x-cache") = {"MISS"}
            /\ HeaderValue(response'.headers, "x-backend")
                 = {backends[task[t].backend].url}
            /\ HeaderValue(response'.headers, "x-region")
                 = {backends[task[t].backend].region}
            /\ HeaderValue(response'.headers, "x-latency") # {}
            /\ "x-cache-hits" \notin HeaderNames(response'.headers)]_vars

\* C14: every response served from the cache or from a backend carries
\* x-cache (HIT or MISS) and x-cache-hits with the current hit count; a MISS
\* carries x-backend, x-latency and x-region of the backend that served it,
\* a HIT carries none of the three
C14_DiagnosticHeaders ==
  [][\A t \in Slots :
       /\ (HitServed(t) \/ MissServed(t)) =>
            HeaderValue(response'.headers, "x-cache-hits")
              = {ToString(metrics'.cacheHits)}
       /\ HitServed(t) =>
            /\ HeaderValue(response'.headers, "x-cache") = {"HIT"}
            /\ HeaderNames(response'.headers)
                 \cap {"x-backend", "x-latency", "x-region"} = {}
       /\ MissServed(t) =>
            /\ HeaderValue(response'.headers, "x-cache") = {"MISS"}
            /\ HeaderValue(response'.headers, "x-backend")
                 = {backends[task[t].backend].url}
            /\ HeaderValue(response'.headers, "x-region")
                 = {backends[task[t].backend].region}
            /\ HeaderValue(response'.headers, "x-latency") # {}]_vars

----------------------------------------------------------------------------
(* Bypass-all: the cache slice's requests under the configuration whose    *)
(* cache.bypassPaths is ['*'] (CONFIGURATION.md, low-latency gaming)       *)
BypassAllConfigs == {[DefaultConfig EXCEPT !.bypassPaths = bypassAll]}

InitBypassAll == InitWithConfig(CacheRegistries, BypassAllConfigs)

NextBypassAll ==
  \/ \E req \in CacheRequests : inbound < MaxCached /\ HandleRequest(req)
  \/ \E t \in Slots, o \in CacheOutcomes : CacheMatchDone(t, o)
  \/ \E t \in Slots, body \in {"v1", "v2"} :
       ForwardSucceeded(t, Reply(200, body))
  \/ \E t \in Slots : ForwardFailed(t, "fetch failed")
  \/ \E t \in Slots, o \in CacheOutcomes : CachePutDone(t, o)
  \/ CacheExpire

SpecBypassAll == InitBypassAll /\ [][NextBypassAll]_vars

\* C21: with cache.bypassPaths = ['*'] no request looks the cache up, is
\* answered from it or is stored in it
C21_BypassAll ==
  [][config.bypassPaths = bypassAll =>
       /\ \A t \in Slots : /\ task'[t].pc \notin {"match", "put"}
                           /\ ~HitServed(t)
       /\ cache' = {}]_vars

----------------------------------------------------------------------------
(* The optimizer: up to MaxRouted cacheable and uncacheable requests of    *)
(* one client carrying any subset of a cookie, an authorization and an     *)
(* accept-encoding header, against one backend                             *)
HeaderPool ==
  {<<"cookie", "sid=1">>, <<"authorization", "Bearer t">>,
   <<"accept-encoding", "identity">>}

OptimizerRequests ==
  [method : {"GET", "POST"}, path : {<<"/api", "/data">>},
   ip : {"10.0.0.1"}, country : {""}, upgrade : {""},
   headers : SUBSET HeaderPool, body : {"", "payload"}]

OptimizerRegistries ==
  {Registry(<<[priority |-> 1, region |-> "us-east"]>>)}

InitOptimizer == InitWith(OptimizerRegistries)

NextOptimizer ==
  \/ \E req \in OptimizerRequests : inbound < MaxRouted /\ HandleRequest(req)
  \/ \E t \in Slots, o \in CacheOutcomes : CacheMatchDone(t, o)
  \/ \E t \in Slots : ForwardSucceeded(t, Reply(200, "v1"))
  \/ \E t \in Slots : ForwardFailed(t, "fetch failed")
  \/ \E t \in Slots, o \in CacheOutcomes : CachePutDone(t, o)

SpecOptimizer == InitOptimizer /\ [][NextOptimizer]_vars

Credentials == {"cookie", "authorization"}

WithoutCredentials(h) == {p \in h : p[1] \notin Credentials}

\* C15: the request handed to fetch carries neither a cookie nor an
\* authorization header; two requests in flight that differ only in those
\* two headers were forwarded identically; and the step that forwards a
\* request keeps the request's own headers as they were received and writes
\* no shared state (registry, cache, rate-limit table outside checkLimit's
\* own record, sessions)
C15_CredentialStripping ==
  [][/\ \A t \in Slots :
          task'[t].pc = "fetch" =>
            HeaderNames(task'[t].forwarded.headers) \cap Credentials = {}
     /\ \A t \in Slots : \A u \in Slots :
          (/\ task'[t].pc = "fetch" /\ task'[u].pc = "fetch"
           /\ task'[t].method = task'[u].method
           /\ task'[t].path = task'[u].path
           /\ task'[t].body = task'[u].body
           /\ task'[t].backend = task'[u].backend
           /\ WithoutCredentials(task'[t].headers)
                = WithoutCredentials(task'[u].headers))
            => task'[t].forwarded = task'[u].forwarded
     /\ \A t \in Slots :
          Selected(t) =>
            /\ backends' = backends /\ cache' = cache /\ sessions' = sessions
            /\ task[t].pc = "match" =>
                 /\ task'[t].headers = task[t].headers
                 /\ requests' = requests
            /\ \A req \in OptimizerRequests :
                 HandleRequest(req) =>
                   /\ task'[t].headers = RequestHeaders(req)
                   /\ requests' = checkLimit(requests, req.ip, now)[2]]_vars

\* two requests of the same method, path and body are being forwarded: one
\* came with a cookie and an authorization header, the other with neither
C15_Witness ==
  /\ task[1].pc = "fetch" /\ task[2].pc = "fetch"
  /\ task[1].method = task[2].method /\ task[1].body = task[2].body
  /\ {"cookie", "authorization"} \subseteq HeaderNames(task[1].headers)
  /\ HeaderNames(task[2].headers) \cap Credentials = {}
  /\ WithoutCredentials(task[1].headers) = task[2].headers
  /\ task[1].forwarded = task[2].forwarded

----------------------------------------------------------------------------
(* The gateway: every kind of request (introspection, WebSocket upgrade,   *)
(* cacheable and uncacheable proxied requests) with no backend or one       *)
(* backend configured, and every step of handleRequest and handleScheduled  *)
GatewayRequests ==
  [method : {"GET"}, path : {<<"/health">>, <<"/metrics">>}, ip : {""},
   country : {""}, upgrade : {""}, headers : {{}},
   body : {""}]
  \cup [method : {"GET"}, path : {<<"/ws">>}, ip : {""}, country : {""},
        upgrade : {"", "websocket"}, headers : {{}},
   body : {""}]
  \cup [method : {"GET", "POST"}, path : {<<"/api", "/data">>}, ip : {""},
        country : {""}, upgrade : {""}, headers : {{}},
   body : {""}]

GatewayRegistries ==
  {<<>>, Registry(<<[priority |-> 1, region |-> "us-east"]>>)}

\* what the backend answers: fetch resolves whatever the status
GatewayReplies == {Reply(200, "v1"), Reply(503, "down")}

Init == InitWith(GatewayRegistries)

Next ==
  \/ \E req \in GatewayRequests : HandleRequest(req)
  \/ \E t \in Slots, o \in CacheOutcomes : CacheMatchDone(t, o)
  \/ \E t \in Slots, reply \in GatewayReplies : ForwardSucceeded(t, reply)
  \/ \E t \in Slots : ForwardFailed(t, "fetch failed")
  \/ \E t \in Slots, o \in CacheOutcomes : CachePutDone(t, o)
  \/ ScheduledStart
  \/ \E o \in ProbeOutcomes : ProbeDone(o)

Spec == Init /\ [][Next]_vars

\* C8: totalRequests goes up by exactly 1 in every step that takes in a
\* request, whatever the request's outcome, and changes in no other step
C8_TotalRequests ==
  [][/\ inbound' = inbound + 1
          => metrics'.totalRequests = metrics.totalRequests + 1
     /\ inbound' = inbound
          => metrics'.totalRequests = metrics.totalRequests]_vars

\* four requests were counted: a cache miss that was stored, a cache hit, a
\* WebSocket upgrade and a request denied with 429
C8_Witness ==
  /\ metrics.totalRequests = 4
  /\ metrics.cacheMisses = 1 /\ metrics.cacheHits = 1
  /\ Len(sessions) = 1
  /\ response.status = 429
  /\ cache # {}

\* the step answered the request it routed 503 in place of a forward: no
\* fetch is started and neither a health flag nor the cache is written
RefusedUnrouted ==
  /\ response'.status = 503
  /\ response'.headers = {}
  /\ response'.body = "No healthy backends available"
  /\ \A t \in Slots : task'[t].pc \notin {"fetch", "put"}
  /\ backends' = backends
  /\ cache' = cache

\* C27 as stated: with no backend configured a routed request is answered
\* 503, nothing is forwarded and nothing written; with backends configured
\* selection yields a backend and no response has status 503
C27_Original ==
  [][IF Len(backends) = 0
     THEN Routed => RefusedUnrouted
     ELSE /\ Routed => \E t \in Slots : Selected(t)
          /\ response'.status # 503]_vars

\* C27: with no backend configured, an admitted request that is not a cache
\* hit is answered 503, no forward is attempted and no health flag or cache
\* entry is written; with backends configured, selection always yields a
\* backend to forward to and the 503 of the router is never returned: a
\* response with status 503 is then the reply of a backend, passed on with
\* the MISS headers naming that backend or served from the cache as a HIT
C27_EmptyRegistry ==
  [][IF Len(backends) = 0
     THEN Routed => RefusedUnrouted
     ELSE /\ Routed => /\ \E t \in Slots :
                             /\ Selected(t)
                             /\ task'[t].backend \in 1..Len(backends)
                        /\ response' = response
          /\ response'.status = 503 =>
               \/ /\ <<"x-cache", "MISS">> \in response'.headers
                  /\ \E b \in 1..Len(backends) :
                       <<"x-backend", backends[b].url>>
                         \in response'.headers
               \/ <<"x-cache", "HIT">> \in response'.headers]_vars

\* without a backend configured, a cacheable GET was admitted, looked up and
\* not found, and answered with the 503 of the router; nothing is in flight
\* and nothing was stored
C27_Witness ==
  /\ Len(backends) = 0
  /\ response = NoBackendResponse
  /\ metrics.cacheMisses = 1
  /\ \A t \in Slots : task[t].pc = "idle"
  /\ cache = {}

\* C38: the cache store changes only when the store of a forwarded
\* request completes, and then by the entry built from the reply the
\* backend gave to that request; a request goes on to the store only from a
\* forward that succeeded, a failed forward is answered 502 at once and
\* stores nothing; every entry of the store is built from a backend reply
\* and every cache HIT carries status and body of a backend reply, never a
\* result made up by the gateway
C38_CacheWrites ==
  /\ [][/\ cache' # cache =>
            \E t \in Slots :
              /\ task[t].pc = "put" /\ task'[t].pc = "idle"
              /\ task[t].reply \in GatewayReplies
              /\ cache' = cachePut(cache,
                                   CacheKey(task[t].method, task[t].path),
                                   cachedResponse(task[t].reply))
        /\ \A t \in Slots :
             /\ (task[t].pc # "put" /\ task'[t].pc = "put") =>
                  /\ task[t].pc = "fetch"
                  /\ task'[t].reply \in GatewayReplies
                  /\ backends' = backends
             /\ (task[t].pc = "fetch" /\ response'.status = 502
                   /\ response' # response) =>
                  cache' = cache /\ task'[t].pc # "put"
             /\ HitServed(t) =>
                  \E r \in GatewayReplies :
                    /\ response'.status = r.status
                    /\ response'.body = r.body]_vars
  /\ [](\A e \in cache :
          \E r \in GatewayReplies : e.response = cachedResponse(r))

\* two forwards of the same GET were under way: one succeeded and its
\* reply was stored, the other failed, was answered 502 and stored nothing;
\* a third request was then denied with 429: the store holds one entry,
\* written once
C38_Witness ==
  /\ inbound = 3
  /\ response.status = 429
  /\ metrics.cacheMisses = 2
  /\ failedSinceProbe # {}
  /\ \E b \in DOMAIN backends : ~backends[b].healthy
  /\ Cardinality(cache) = 1
  /\ \A e \in cache : e.response = cachedResponse(Reply(200, "v1"))
  /\ \A k \in DOMAIN lastStored : lastStored[k].seq = 1
  /\ \A t \in Slots : task[t] = IdleTask

\* this step turned the healthy flag of backend b off outside a refresh
MarkedByRequest(b) ==
  /\ backends[b].healthy /\ ~backends'[b].healthy
  /\ sched' = sched

\* C39: a forward that resolves counts as a success whatever the status of
\* the reply: no health flag changes, the reply of an uncacheable request is
\* passed on with its status and the MISS headers, the reply of a cacheable
\* GET goes on to the store, where it is written under the request's key
\* unless the store fails, and is then passed on as well; a request step
\* turns a healthy flag off only when the forward to that backend threw,
\* and a forward is answered 502 only with the message of the error that
\* fetch threw
C39_StatusNotInspected ==
  [][\A t \in Slots :
       /\ (task[t].pc = "fetch" /\ task'[t].pc = "put") =>
            /\ task'[t].reply \in GatewayReplies
            /\ backends' = backends
       /\ (task[t].pc = "fetch" /\ task'[t].pc = "idle"
             /\ response'.status # 502) =>
            /\ ~shouldCache(task[t].method, task[t].path)
            /\ <<"x-cache", "MISS">> \in response'.headers
            /\ \E r \in GatewayReplies :
                 response'.status = r.status /\ response'.body = r.body
            /\ backends' = backends
       /\ (task[t].pc = "put" /\ task'[t].pc = "idle") =>
            /\ <<"x-cache", "MISS">> \in response'.headers
            /\ response'.status = task[t].reply.status
            /\ response'.body = task[t].reply.body
            /\ backends' = backends
            /\ \/ cache' = cache /\ lastStored' = lastStored
               \/ /\ cache' = cachePut(cache,
                                        CacheKey(task[t].method, task[t].path),
                                        cachedResponse(task[t].reply))
                  /\ lastStored' # lastStored
       /\ \A b \in DOMAIN backends :
            (MarkedByRequest(b) /\ task'[t] # task[t]) =>
               /\ task[t].pc = "fetch" /\ task[t].backend = b
               /\ task'[t] = IdleTask
               /\ response'.status = 502
       /\ (task[t].pc = "fetch" /\ task'[t].pc = "idle"
             /\ response'.status = 502) =>
            response'.body.message = "fetch failed"]_vars

\* the backend answered a cacheable GET with status 503: the reply was
\* passed on as a MISS and stored, and the backend is still healthy
C39_Witness ==
  /\ inbound = 1
  /\ response.status = 503
  /\ <<"x-cache", "MISS">> \in response.headers
  /\ \E e \in cache : e.response = cachedResponse(Reply(503, "down"))
  /\ \A b \in DOMAIN backends : backends[b].healthy
  /\ failedSinceProbe = {}
  /\ \A t \in Slots : task[t] = IdleTask

----------------------------------------------------------------------------
(* Suspension points: cacheable requests against one backend, where every  *)
(* await of handleRequest (cache.match, fetch, cache.put) resumes only     *)
(* when the cache store or the backend answers, and the probe's fetch      *)
(* resumes when the backend answers or when the abort timer of checkHealth *)
(* fires.  The timer is the runtime's: once armed it fires, which is the   *)
(* one fairness condition; nothing obliges a backend or the cache store to *)
(* answer                                                                  *)
HangRequests ==
  [method : {"GET"}, path : {<<"/api", "/data">>}, ip : Ips,
   country : {""}, upgrade : {""}, headers : {{}},
   body : {""}]

HangRegistries ==
  {Registry(<<[priority |-> 1, region |-> "us-east"]>>)}

InitHang == InitWith(HangRegistries)

\* setTimeout(() => controller.abort(), CONFIG.healthCheck.timeout) fires:
\* the probe's fetch rejects and checkHealth returns false
ProbeTimeout == ProbeDone("timeout")

NextHang ==
  \/ \E req \in HangRequests : HandleRequest(req)
  \/ \E t \in Slots, o \in CacheOutcomes : CacheMatchDone(t, o)
  \/ \E t \in Slots : ForwardSucceeded(t, Reply(200, "v1"))
  \/ \E t \in Slots : ForwardFailed(t, "fetch failed")
  \/ \E t \in Slots, o \in CacheOutcomes : CachePutDone(t, o)
  \/ ScheduledStart
  \/ \E o \in ProbeOutcomes \ {"timeout"} : ProbeDone(o)
  \/ ProbeTimeout

SpecHang == InitHang /\ [][NextHang]_vars /\ WF_vars(ProbeTimeout)

\* the part of the claim the worker implements: a started round of health
\* probes always ends, also when no backend answers
ProbesBounded == (sched.pc = "probe") ~> (sched.pc = "idle")

\* C11: every admitted proxied request that waits on the cache store or on
\* its backend eventually reaches its terminal response, also when the
\* cache store or the backend never answers
C11_NoIndefiniteHang ==
  \A t \in Slots : (task[t].pc # "idle") ~> (task[t].pc = "idle")

----------------------------------------------------------------------------
(* The refresh: one to MaxBackends backends probed in turn with every      *)
(* outcome, the abort timer of the probe, uncacheable requests whose       *)
(* forwards succeed or fail meanwhile, and the clock                       *)
ProbeRequests ==
  [method : {"POST"}, path : {<<"/api", "/data">>}, ip : {""},
   country : {""}, upgrade : {""}, headers : {{}}, body : {""}]

InitProbe == InitWith(FailFastRegistries)

NextProbe ==
  \/ \E req \in ProbeRequests : inbound < MaxProbed /\ HandleRequest(req)
  \/ \E t \in Slots : ForwardSucceeded(t, Reply(200, "v1"))
  \/ \E t \in Slots : ForwardFailed(t, "fetch failed")
  \/ ScheduledStart
  \/ \E o \in ProbeOutcomes \ {"timeout"} : ProbeDone(o)
  \/ ProbeTimeout
  \/ now < MaxProbeTime /\ Tick

SpecProbe == InitProbe /\ [][NextProbe]_vars /\ WF_vars(ProbeTimeout)

\* C32: checkHealth always completes and never throws: it returns true
\* only when /health answered with a success status, and false for a
\* non-success status, a network failure and a timeout; the caller gets the
\* result and goes on, to the next backend or to the end of the refresh,
\* so a refresh that has started its probes always gets through them, by
\* the abort timer if nothing else
C32_ProbeOutcome ==
  /\ [][\A o \in ProbeOutcomes :
          ProbeDone(o) =>
            /\ backends'[sched.i].healthy = (o = "ok")
            /\ sched' = IF sched.i < Len(backends)
                        THEN [pc |-> "probe", i |-> sched.i + 1]
                        ELSE [pc |-> "idle", i |-> 0]]_vars
  /\ (sched.pc = "probe") ~> (sched.pc = "idle")

\* no request was ever delivered and a completed refresh has left the
\* backend unhealthy: its probe returned false
C32_Witness ==
  /\ inbound = 0
  /\ sched.pc = "idle"
  /\ ~backends[1].healthy

\* every record of the rate-limit table holds a timestamp inside the window
TableClean ==
  \A c \in DOMAIN requests : InWindow(requests[c], now) # <<>>

\* C33: a refresh probes the registered backends one after the other from
\* the first to the last; whatever its outcome, each probe writes its
\* result into the flag of the backend probed, leaves every other backend
\* as it is and lets the refresh go on; a refresh under way always
\* completes, and on completing it runs the rate limiter cleanup
C33_RefreshIsolation ==
  /\ [][/\ (ScheduledStart /\ Len(backends) > 0) =>
              sched' = [pc |-> "probe", i |-> 1]
         /\ \A o \in ProbeOutcomes :
              ProbeDone(o) =>
                /\ backends' =
                     [backends EXCEPT ![sched.i].healthy = checkHealth(o)]
                /\ IF sched.i < Len(backends)
                   THEN /\ sched' = [pc |-> "probe", i |-> sched.i + 1]
                        /\ requests' = requests
                   ELSE /\ sched'.pc = "idle"
                        /\ requests' = cleanup(requests, now)]_vars
  /\ (sched.pc = "probe") ~> (sched.pc = "idle" /\ TableClean)

\* one request was forwarded and answered by the backend, a refresh has
\* completed after the window elapsed: the probe of the first backend
\* failed, that of the second succeeded, and the cleanup removed the
\* client's expired record
C33_Witness ==
  /\ Len(backends) = 2
  /\ ~backends[1].healthy /\ backends[2].healthy
  /\ sched.pc = "idle"
  /\ inbound = 1
  /\ response.status = 200
  /\ now = windowMs
  /\ DOMAIN requests = {}

----------------------------------------------------------------------------
(* Health checking switched on or off: uncacheable requests against one to *)
(* MaxBackends backends, forwards that succeed or fail, and the scheduled  *)
(* handler with its probes                                                 *)
SwitchRequests ==
  [method : {"POST"}, path : {<<"/api", "/data">>}, ip : {""},
   country : {""}, upgrade : {""}, headers : {{}}, body : {""}]

SwitchConfigs ==
  {[DefaultConfig EXCEPT !.healthCheckEnabled = e] : e \in BOOLEAN}

InitSwitch == InitWithConfig(FailFastRegistries, SwitchConfigs)

NextSwitch ==
  \/ \E req \in SwitchRequests : inbound < MaxRouted /\ HandleRequest(req)
  \/ \E t \in Slots : ForwardSucceeded(t, Reply(200, "v1"))
  \/ \E t \in Slots : ForwardFailed(t, "fetch failed")
  \/ ScheduledStart
  \/ \E o \in ProbeOutcomes : ProbeDone(o)

SpecSwitch == InitSwitch /\ [][NextSwitch]_vars

\* C20: when CONFIG.healthCheck.enabled is false the scheduled handler
\* starts no probe and no step of it changes a backend's healthy flag
C20_HealthCheckDisabled ==
  [][~config.healthCheckEnabled =>
       /\ sched'.pc # "probe"
       /\ (ScheduledStart \/ \E o \in ProbeOutcomes : ProbeDone(o))
            => backends' = backends]_vars

----------------------------------------------------------------------------
(* WebSocket upgrades: up to MaxUpgrades requests to /ws, to a proxied     *)
(* path and to the introspection paths, with and without the Upgrade       *)
(* header, no backend configured, and on every accepted session the close  *)
(* event and the loss of the peer                                          *)
SessionRequests ==
  [method : {"GET"},
   path : {<<"/ws">>, <<"/api", "/data">>, <<"/health">>, <<"/metrics">>},
   ip : {""}, country : {""}, upgrade : {"", "websocket", "h2c"},
   headers : {{}}, body : {""}]

Introspection == {<<"/health">>, <<"/metrics">>}

SessionRegistries == {<<>>}

InitSession == InitWith(SessionRegistries)

NextSession ==
  \/ \E req \in SessionRequests : inbound < MaxUpgrades /\ HandleRequest(req)
  \/ \E s \in SessionIds : SessionClose(s)
  \/ \E s \in SessionIds : PeerGone(s)

SpecSession == InitSession /\ [][NextSession]_vars

\* this step accepted an upgrade: 101 and one new session, just set up
Upgraded ==
  /\ response'.status = 101
  /\ sessions' = Append(sessions, NewSession(now))
  /\ response'.body.webSocket = Len(sessions')

\* C13 as claimed: every request to /ws and every request carrying
\* Upgrade: websocket is answered 101 with a new session
C13_Original ==
  [][\A req \in SessionRequests :
       (HandleRequest(req)
          /\ (req.path = <<"/ws">> \/ req.upgrade = "websocket"))
         => Upgraded]_vars

\* C13 as amended: every request carrying Upgrade: websocket to a path
\* other than /health and /metrics is answered 101 with a new session; a
\* request to /ws without that header is answered 426 and creates no
\* session; a request to /health or /metrics is answered with the
\* introspection document and creates no session, whatever its headers
C13_UpgradeByHeader ==
  [][\A req \in SessionRequests :
       HandleRequest(req) =>
         /\ (req.upgrade = "websocket" /\ req.path \notin Introspection)
              => Upgraded
         /\ (req.path = <<"/ws">> /\ req.upgrade # "websocket")
              => response'.status = 426 /\ sessions' = sessions
         /\ req.path \in Introspection
              => /\ response'.status = 200
                 /\ "metrics" \in DOMAIN response'.body
                 /\ sessions' = sessions]_vars

\* the third request was an upgrade, accepted as the second session while
\* the first session is still open
C13_Witness ==
  /\ response.status = 101
  /\ metrics.totalRequests = 3
  /\ Len(sessions) = 2
  /\ response.body.webSocket = 2
  /\ sessions[1].open
  /\ sessions[2] = NewSession(now)

\* the sessions whose connection is open: no close event, peer still there
OpenSessions == {i \in DOMAIN sessions : IsOpen(sessions[i])}

\* C18: the activeConnections value of every /health and /metrics response
\* is the number of WebSocket sessions open when the request is handled
C18_ActiveConnections ==
  [][\A req \in SessionRequests :
       (HandleRequest(req) /\ req.path \in Introspection)
         => response'.body.metrics.activeConnections
              = Cardinality(OpenSessions)]_vars

\* C19: never more than maxConnections WebSocket sessions are open at once
C19_ConnectionCap == Cardinality(OpenSessions) <= maxConnections

\* the requests handleRequest answers before its rate-limiting check
OutsidePipeline(req) ==
  \/ req.path \in Introspection
  \/ req.path = <<"/ws">>
  \/ req.upgrade = "websocket"

\* responses whose body is a document or a socket rather than text
Structured(r) ==
  r.status = 101 \/ r.headers = {<<"content-type", "application/json">>}

\* the step handled req, a request answered before the rate-limiting check
HandledOutside(req) ==
  /\ OutsidePipeline(req)
  /\ inbound' = inbound + 1
  /\ Structured(response') =
       (req.path \in Introspection \/ req.upgrade = "websocket")
  /\ HandleRequest(req)

Decided ==
  \E c \in ClientIds : Len(decisions'[c]) = Len(decisions[c]) + 1

PipelineUntouched ==
  /\ requests' = requests
  /\ cache' = cache
  /\ metrics'.cacheHits = metrics.cacheHits
  /\ metrics'.cacheMisses = metrics.cacheMisses
  /\ backends' = backends
  /\ task' = task

\* C31: handling /health, /metrics or a WebSocket request leaves the
\* rate-limit table, the cache, cacheHits and cacheMisses and every backend
\* as they were, starts no lookup, forward or store and asks the rate
\* limiter nothing; every request handled is either decided by the rate
\* limiter or answered with the introspection document or by the session
\* manager (200, 101, 426) with the pipeline untouched, so 429 is returned
\* only with a denial of the rate limiter
C31_OutsidePipeline ==
  [][/\ \A req \in GatewayRequests :
          HandledOutside(req) => PipelineUntouched /\ ~Decided
     /\ inbound' = inbound + 1 =>
          \/ Decided
          \/ /\ PipelineUntouched
             /\ response'.status \in {200, 101, 426}
     /\ (inbound' = inbound + 1 /\ response'.status = 429) => Denied]_vars

\* the client's window is full, its two admitted requests are still being
\* forwarded, and its /health request was answered with the document
C31_Witness ==
  /\ inbound = 3
  /\ "unknown" \in DOMAIN requests
  /\ Len(InWindow(requests["unknown"], now)) = requestsPerMinute
  /\ \A t \in Slots : task[t].pc = "fetch"
  /\ response.status = 200
  /\ response.headers = {<<"content-type", "application/json">>}
  /\ response.body.metrics.totalRequests = 3

----------------------------------------------------------------------------
(* Keep-alive: upgrades accepted at any time of the clock, and on every    *)
(* session its interval callback, up to MaxMessages pongs sent by the      *)
(* clients, the close event and the loss of the peer                       *)
KeepAliveRequests ==
  [method : {"GET"}, path : {<<"/ws">>}, ip : {""}, country : {""},
   upgrade : {"websocket"}, headers : {{}}, body : {""}]

KeepAliveRegistries == {<<>>}

KeepAlivePayloads == {PongText}

RECURSIVE CountReceived(_)
CountReceived(ss) ==
  IF ss = <<>> THEN 0 ELSE Len(Head(ss).received) + CountReceived(Tail(ss))

\* the message events delivered so far, over all sessions
TotalReceived == CountReceived(sessions)

InitKeepAlive == InitWith(KeepAliveRegistries)

NextKeepAlive ==
  \/ \E req \in KeepAliveRequests : HandleRequest(req)
  \/ \E s \in SessionIds : KeepAliveTick(s)
  \/ \E s \in SessionIds, text \in KeepAlivePayloads :
       TotalReceived < MaxMessages /\ SessionMessage(s, text)
  \/ \E s \in SessionIds : SessionClose(s)
  \/ \E s \in SessionIds : PeerGone(s)
  \/ Tick

SpecKeepAlive == InitKeepAlive /\ [][NextKeepAlive]_vars

\* the ping envelopes sent on session s, in send order
Pings(s) == SelectSeq(s.sent, LAMBDA e : e.type = "ping")

\* C16: while a session is open its timer is armed and exactly one ping was
\* sent at the end of each elapsed keep-alive interval counted from the
\* session's own accept time; a received pong produces no reply, does not
\* close the session and does not stop or shift its timer
C16_KeepAlive ==
  [][/\ \A i \in DOMAIN sessions' :
          LET s == sessions'[i]
          IN IsOpen(s) =>
               /\ s.timer
               /\ s.due = s.openedAt + (Len(Pings(s)) + 1) * keepAliveInterval
               /\ now' <= s.due
               /\ \A k \in DOMAIN Pings(s) :
                    Pings(s)[k].timestamp = s.openedAt + k * keepAliveInterval
     /\ \A i \in DOMAIN sessions :
          SessionMessage(i, PongText) =>
            /\ sessions'[i].sent = sessions[i].sent
            /\ sessions'[i].open = sessions[i].open
            /\ sessions'[i].timer = sessions[i].timer
            /\ sessions'[i].due = sessions[i].due]_vars

\* the session accepted at time 0 received a pong and then sent its pings of
\* times 2 and 4, while the session accepted at time 1 sent its ping of
\* time 3; both are open
C16_Witness ==
  /\ Len(sessions) = 2
  /\ IsOpen(sessions[1]) /\ IsOpen(sessions[2])
  /\ sessions[1].openedAt = 0 /\ sessions[2].openedAt = 1
  /\ sessions[1].received = <<PongText>>
  /\ sessions[1].sent = <<[type |-> "ping", timestamp |-> 2],
                          [type |-> "ping", timestamp |-> 4]>>
  /\ sessions[2].sent = <<[type |-> "ping", timestamp |-> 3]>>

\* C17: the close event and a failed keep-alive send each leave the
\* session's timer cancelled; once cancelled it stays cancelled and its
\* callback never runs again, so no ping is sent or attempted, whichever of
\* the two comes first and whether or not the other follows; and a
\* session's close or keep-alive callback changes no other session
C17_KeepAliveStops ==
  [][\A i \in DOMAIN sessions :
       /\ SessionClose(i) => ~sessions'[i].timer
       /\ (KeepAliveTick(i) /\ ~CanSend(i)) =>
            /\ ~sessions'[i].timer
            /\ sessions'[i].sent = sessions[i].sent
       /\ ~sessions[i].timer =>
            /\ ~sessions'[i].timer
            /\ sessions'[i].attempts = sessions[i].attempts
            /\ Pings(sessions'[i]) = Pings(sessions[i])
       /\ (SessionClose(i) \/ KeepAliveTick(i)) =>
            \A j \in DOMAIN sessions : j # i => sessions'[j] = sessions[j]]_vars

\* the first session's keep-alive send failed at time 2 and its close event
\* followed; the second session, accepted at time 0 too, sent its pings of
\* times 2 and 4 and is open
C17_Witness ==
  /\ Len(sessions) = 2
  /\ sessions[1].openedAt = 0 /\ sessions[2].openedAt = 0
  /\ sessions[1].peerGone /\ ~sessions[1].open /\ ~sessions[1].timer
  /\ sessions[1].attempts = 1 /\ Pings(sessions[1]) = <<>>
  /\ IsOpen(sessions[2]) /\ sessions[2].timer
  /\ Len(Pings(sessions[2])) = 2
  /\ now = 4

----------------------------------------------------------------------------
(* Messages: sessions opened by upgrade requests, every kind of payload    *)
(* delivered to their message listeners, close events and lost peers       *)
InitMessages == InitWith(KeepAliveRegistries)

NextMessages ==
  \/ \E req \in KeepAliveRequests : HandleRequest(req)
  \/ \E s \in SessionIds, text \in Payloads :
       TotalReceived < MaxDelivered /\ SessionMessage(s, text)
  \/ \E s \in SessionIds : SessionClose(s)
  \/ \E s \in SessionIds : PeerGone(s)

SpecMessages == InitMessages /\ [][NextMessages]_vars

\* the sessions other than s are left as they are
OthersUntouched(s) ==
  /\ Len(sessions') = Len(sessions)
  /\ \A o \in DOMAIN sessions \ {s} : sessions'[o] = sessions[o]

Askers(s) ==
  SelectSeq(s.received,
            LAMBDA text : Decodes(text) /\ JSONparse(text).data.type # "pong")

\* the response envelopes sent on session record s, in send order
Replies(s) == SelectSeq(s.sent, LAMBDA e : e.type = "response")

\* C35: on a session whose transport is alive, a decodable message other
\* than pong appends exactly one response envelope echoing its data to that
\* session and touches no other session; hence the responses of a session
\* echo, in order, the messages it received (all of them while its peer is
\* there, a prefix of them once the peer is gone)
C35_PerSessionOrdering ==
  /\ [][\A s \in SessionIds : \A text \in Payloads :
          (/\ SessionMessage(s, text)
           /\ Decodes(text) /\ JSONparse(text).data.type # "pong"
           /\ CanSend(s)) =>
             /\ Len(sessions'[s].sent) = Len(sessions[s].sent) + 1
             /\ SubSeq(sessions'[s].sent, 1, Len(sessions[s].sent))
                  = sessions[s].sent
             /\ sessions'[s].sent[Len(sessions'[s].sent)].type = "response"
             /\ sessions'[s].sent[Len(sessions'[s].sent)].data
                  = JSONparse(text).data
             /\ OthersUntouched(s)]_vars
  /\ [](\A s \in DOMAIN sessions :
          /\ Len(Replies(sessions[s])) <= Len(Askers(sessions[s]))
          /\ \A i \in 1..Len(Replies(sessions[s])) :
               Replies(sessions[s])[i].data
                 = JSONparse(Askers(sessions[s])[i]).data
          /\ ~sessions[s].peerGone =>
               Len(Replies(sessions[s])) = Len(Askers(sessions[s])))

\* two sessions; one received a message and then an echo and answered them
\* in that order, the other was sent nothing
C35_Witness ==
  /\ Len(sessions) = 2
  /\ \E s \in DOMAIN sessions :
       /\ sessions[s].received = <<MessageText, EchoText>>
       /\ Len(sessions[s].sent) = 2
       /\ sessions[s].sent[1].type = "response"
       /\ sessions[s].sent[1].data.type = "message"
       /\ sessions[s].sent[2].type = "response"
       /\ sessions[s].sent[2].data.type = "echo"
       /\ \A o \in DOMAIN sessions \ {s} : sessions[o].sent = <<>>

----------------------------------------------------------------------------
(* The retry hint: uncacheable requests of the clients with no backend     *)
(* configured, under every window length from 1 to MaxWindow, the clock    *)
(* and the scheduled cleanup                                               *)
RetryRequests ==
  [method : {"POST"}, path : {<<"/api", "/data">>}, ip : Ips,
   country : {""}, upgrade : {""}, headers : {{}}, body : {""}]

RetryConfigs == {[DefaultConfig EXCEPT !.windowMs = w] : w \in 1..MaxWindow}

InitRetry == InitWithConfig(LimiterRegistries, RetryConfigs)

NextRetry ==
  \/ \E req \in RetryRequests : HandleRequest(req)
  \/ ScheduledStart
  \/ Tick

SpecRetry == InitRetry /\ [][NextRetry]_vars

\* the time a denied client is told to wait: the retry-after header of the
\* 429, read as seconds
RetryHint(r) ==
  IF <<"retry-after", "60">> \in r.headers THEN retryAfter ELSE 0

\* C40: whatever the configured window, a client that was denied and whose
\* next request comes no sooner than the retry-after duration of the 429
\* later is admitted with that request
C40_RetryHintSufficient ==
  \A c \in ClientIds : \A k \in 1..(Len(decisions[c]) - 1) :
    (/\ ~decisions[c][k].allowed
     /\ decisions[c][k + 1].t >= decisions[c][k].t + RetryHint(RateLimitResponse))
       => decisions[c][k + 1].allowed

====
